---- MODULE Spec2Model ----
(***************************************************************************)
(* The hybrid StorageService (Supabase first, LocalStorage fallback, with   *)
(* a session-wide circuit breaker) as a state machine.                      *)
(*                                                                          *)
(* Every async method runs in at most two atomic steps, as JavaScript runs  *)
(* it: the "Call" step is the code up to the single `await supabase...`     *)
(* (or the whole method when no remote request is made), the "Return" step  *)
(* is the code after the await, with the remote answer as its input.        *)
(* Strings are sequences of tokens, so startsWith / replace / includes are  *)
(* computed and not assumed.  Time is in milliseconds.                      *)
(***************************************************************************)
EXTENDS Integers, Sequences, FiniteSets, TLC

VARIABLES
    supabase,          \* TRUE iff createClient ran (the client is not null)
    isCloudDisabled,   \* the circuit breaker flag
    localStorage,      \* key -> stored string, NoItem when the key is absent
    quota,             \* capacity of localStorage, in length units
    matchups,          \* remote table 'matchups': id -> row, NoRow when absent
    schedules,         \* remote table 'schedules': id -> row, NoRow when absent
    now,               \* Date.now()
    inflight,          \* task -> the call suspended at its await, or Idle
    ret,               \* the call that returned in the last step, or NoReturn
    calls,             \* number of StorageService calls made so far
    history,           \* TRUE iff the observer below records the saves
    lastSave,          \* observer: what the last completed save call did
    cloudStatus,       \* App state: 'checking' | 'connected' | 'offline'
    cachedGameIds,     \* App state: the ids of the games shown as cached
    handler,           \* task -> where the App handler it runs stands
    selectedGame,      \* App state: the id of the selected game, or Null
    result,            \* App state: the analysis and the sources shown
    rosterData         \* App state: the game whose rosters are shown, or Null

vars == <<supabase, isCloudDisabled, localStorage, quota, matchups, schedules,
          now, inflight, ret, calls, history, lastSave,
          cloudStatus, cachedGameIds, handler, selectedGame, result,
          rosterData>>

\* no call is suspended on the task; no call returned in the last step
Idle == [op |-> "idle"]
NoReturn == [op |-> "none"]

---------------------------------------------------------------------------
(* Bounds of the model *)

\* client calls made in one behaviour
MaxCalls == 3

\* localStorage capacity of the main specification, in length units
QuotaUnits == 7

GameIds == {"g1", "g2"}
PruneIds == {"g1", "g2", "g3", "g4", "g5", "g6"}
Weeks == {"w1"}
Tasks == {"t1", "t2"}
Callers == {"t1"}

---------------------------------------------------------------------------
(* Program constants *)

CACHE_PREFIX == <<"eric_ai_", "cache", "_v1_">>
CACHE_EXPIRY_MS == 1000 * 60 * 60 * 24

SCHEDULE_CACHE_PREFIX == <<"eric_ai_", "schedule", "_v1_">>
SCHEDULE_EXPIRY_MS == 1000 * 60 * 60 * 6

\* items.slice(0, 5)
PruneCount == 5

\* the instants Date.now() is observed at: a first instant and the instants
\* at which an entry of that instant reaches each expiry
Instants == {1, SCHEDULE_EXPIRY_MS + 1, CACHE_EXPIRY_MS + 1}

---------------------------------------------------------------------------
(* Values *)

Null == "null"

\* CachedMatchup values: a full analysis, and the smallest legal one
PayloadA == [data |-> "analysis", sources |-> <<"src">>, rawText |-> <<"r", "a", "w">>]
PayloadB == [data |-> Null, sources |-> <<>>, rawText |-> <<>>]
Payloads == {PayloadA, PayloadB}

\* games arrays of a schedule
GamesA == <<"kc-lv">>
GamesB == <<>>
GamesLists == {GamesA, GamesB}

\* a JSON null in a column that holds an array or a text
NullSeq == <<Null>>

\* JavaScript `v || d` on an array or text column read back from the table
OrElse(v, d) == IF v = NullSeq THEN d ELSE v

---------------------------------------------------------------------------
(* Strings: keys and stored values *)

\* `${prefix}${id}`
KeyOf(prefix, id) == prefix \o <<id>>

\* key.startsWith(prefix)
StartsWith(key, prefix) ==
    /\ Len(key) >= Len(prefix)
    /\ SubSeq(key, 1, Len(prefix)) = prefix

\* key.replace(prefix, '') for a key that starts with the prefix: the id,
\* which is one token
StripPrefix(key, prefix) == key[Len(prefix) + 1]

\* message.includes(word)
Includes(message, word) == \E i \in 1..Len(message) : message[i] = word

\* the localStorage keys the calls on these game ids and weeks can touch
LocalKeys(ids, weeks) ==
    {KeyOf(CACHE_PREFIX, g) : g \in ids}
        \cup {KeyOf(SCHEDULE_CACHE_PREFIX, w) : w \in weeks}

\* localStorage.getItem(key) === null
NoItem == <<>>

\* a stored string that is not JSON
Garbage == <<"garbage">>

\* JSON.stringify(value)
JSON_stringify(value) == <<"json", value>>

\* JSON.parse(text): the value, or a SyntaxError
JSON_parse(text) ==
    IF text # NoItem /\ text[1] = "json"
    THEN [ok |-> TRUE, value |-> text[2]]
    ELSE [ok |-> FALSE]

\* text.length of a stored string
Length(text) ==
    IF text = NoItem THEN 0
    ELSE IF text[1] # "json" THEN 1
    ELSE LET v == text[2] IN
         IF "payload" \in DOMAIN v
         THEN 1 + (IF v.payload.data = Null THEN 0 ELSE 1)
                + Len(v.payload.sources) + Len(v.payload.rawText)
         ELSE IF "games" \in DOMAIN v THEN 1 + Len(v.games)
         ELSE 1

RECURSIVE SumLength(_, _)
SumLength(store, keys) ==
    IF keys = {} THEN 0
    ELSE LET k == CHOOSE x \in keys : TRUE
         IN Length(store[k]) + SumLength(store, keys \ {k})

\* the space the stored values take
Used(store) == SumLength(store, DOMAIN store)

\* localStorage.setItem(key, text): the store afterwards and the name of the
\* exception thrown ("none" when it returns).  `fault` is an exception the
\* browser raises for a reason other than the quota.
setItem(store, key, text, fault) ==
    LET new == [store EXCEPT ![key] = text] IN
    IF fault # "none" THEN [store |-> store, error |-> fault]
    ELSE IF Used(new) > quota THEN [store |-> store, error |-> "QuotaExceededError"]
    ELSE [store |-> new, error |-> "none"]

\* exceptions of setItem that are not a quota error
StorageFaults == {"none", "NS_ERROR_FILE_NO_DEVICE_SPACE"}

\* localStorage.removeItem(key)
removeItem(store, key) == [store EXCEPT ![key] = NoItem]

---------------------------------------------------------------------------
(* The remote tier *)

NoRow == [absent |-> TRUE]

\* the error of .single() when no row matches
NotFoundError == [code |-> "PGRST116", message |-> <<"no", "rows", "returned">>]

\* the failures a request can report as an error result
RemoteErrors ==
    { [code |-> "42501", message |-> <<"permission", "denied", "for", "table">>],
      [code |-> "08006", message |-> <<"connection", "failure">>],
      [code |-> "23514", message |-> <<"violates", "check", "constraint">>] }

\* the exceptions an awaited request can throw: a network failure, and a
\* failure that has nothing to do with permission or connectivity
ThrownErrors ==
    { [name |-> "TypeError", message |-> <<"network", "connection", "lost">>],
      [name |-> "TypeError", message |-> <<"value", "is", "not", "serializable">>] }

\* what the remote tier does with one request: serves it, reports an error
\* result, or makes the client throw
RemoteOutcomes ==
    {[kind |-> "ok"]}
        \cup {[kind |-> "throw", error |-> e] : e \in ThrownErrors}
        \cup {[kind |-> "error", error |-> e] : e \in RemoteErrors}

\* no request was made
NoRequest == [kind |-> "none"]

\* variant: only the first pattern is matched
IsCircuitErrorPermissionOnly(error) ==
    Includes(error.message, "permission")

\* error.message.includes('permission') || error.message.includes('connection')
IsCircuitError(error) ==
    Includes(error.message, "permission") \/ Includes(error.message, "connection")

\* variant: the guard does not look at the circuit flag
CloudUsableIgnoresCircuit == supabase

\* variant: the guard does not look at the client
CloudUsableIgnoresClient == ~isCloudDisabled

\* supabase && !isCloudDisabled, the guard of every remote request
CloudUsable == supabase /\ ~isCloudDisabled

\* isCloudActive()
isCloudActive == supabase /\ ~isCloudDisabled

---------------------------------------------------------------------------
(* Remote requests: the answer the awaited promise settles with *)

\* .upsert(row): { error } or a thrown exception
UpsertAnswer(o) ==
    IF o.kind = "ok" THEN [kind |-> "data"] ELSE o

\* .select('*').eq('id', id).single(): { data, error } or a thrown exception
SingleAnswer(table, id, o) ==
    IF o.kind # "ok" THEN o
    ELSE IF table[id] = NoRow THEN [kind |-> "error", error |-> NotFoundError]
    ELSE [kind |-> "data", data |-> table[id]]

\* .select('id'): the ids of all rows, or an error, or a thrown exception
IdsAnswer(table, o) ==
    IF o.kind # "ok" THEN o
    ELSE [kind |-> "data", data |-> {id \in DOMAIN table : table[id] # NoRow}]

\* the row saveMatchup upserts
MatchupRow(id, item) ==
    [id |-> id, timestamp |-> item.timestamp, data |-> item.payload.data,
     sources |-> item.payload.sources, raw_text |-> item.payload.rawText]

\* the CachedMatchup getMatchup builds from a row
MatchupOfRow(row) ==
    [data |-> row.data, sources |-> OrElse(row.sources, <<>>),
     rawText |-> OrElse(row.raw_text, <<>>)]

\* the row saveSchedule upserts
ScheduleRow(week, games, timestamp) ==
    [id |-> week, week |-> week, games |-> games, timestamp |-> timestamp]

---------------------------------------------------------------------------
(* Values a call returns *)

\* a resolved promise carrying a value, a cache miss (null), a rejected promise
Found(v) == [found |-> TRUE, value |-> v]
Missing == [found |-> FALSE]
Resolved == [settled |-> "resolved"]
Rejected == [settled |-> "rejected"]

\* the promise of an async method: rejected when an exception leaves it
Settle(threw, value) == IF threw THEN Rejected ELSE value

\* what a call did to localStorage.setItem: the string it wrote, the number
\* of setItem calls, the name of the exception of the first one, the keys
\* pruneCache removed
Wrote(text, attempts, error, pruned) ==
    [text |-> text, attempts |-> attempts, error |-> error, pruned |-> pruned]

NoWrite == Wrote(<<>>, 0, "none", {})

\* what a get did at localStorage: the string getItem returned (NoItem for
\* null) and whether it called removeItem on the key
Looked(text, removed) == [read |-> text, removed |-> removed]

\* observation of the call that returns in this step: the method, the
\* localStorage key it is about, the answer of its remote request
\* (NoRequest when it made none), its local write, the value it settles
\* with, and the circuit flag as the step found it
Returned(op, key, answer, write, value) ==
    [op |-> op, key |-> key, remote |-> answer, local |-> write, value |-> value,
     wasDisabled |-> isCloudDisabled]

\* observer: no save call has completed
NoSave == [saved |-> FALSE]

\* the expiry of the entries under a key
ExpiryOf(key) ==
    IF StartsWith(key, CACHE_PREFIX) THEN CACHE_EXPIRY_MS ELSE SCHEDULE_EXPIRY_MS

\* observer: the save call that completes in this step: its key, value and
\* timestamp, whether the circuit flag was set when it was called, how its
\* remote request ended ("none": no request was made, "data": it succeeded,
\* "failed": an error result or an exception), whether its local write left
\* the entry in localStorage, whether the save call completed before it was
\* a save to the same key, and (steady) that the circuit flag has not
\* changed since it completed
SaveRecord(key, value, timestamp, open, answer, stored) ==
    IF ~history THEN NoSave
    ELSE [saved |-> TRUE, key |-> key, value |-> value, timestamp |-> timestamp,
          open |-> open,
          remote |-> IF answer.kind \in {"error", "throw"} THEN "failed"
                     ELSE answer.kind,
          stored |-> stored,
          second |-> lastSave.saved /\ lastSave.key = key, steady |-> TRUE]

\* observer: a save is forgotten once its entry has expired
Forget(ls, time) ==
    IF ls.saved /\ time - ls.timestamp >= ExpiryOf(ls.key) THEN NoSave ELSE ls

\* observer: a change of the circuit flag after the save completed
Disturb(ls, flag) ==
    IF flag = isCloudDisabled \/ ~ls.saved THEN ls
    ELSE [ls EXCEPT !.steady = FALSE]

---------------------------------------------------------------------------
(* pruneCache *)

\* variant: pruneCache collects every key, without the test of the prefix
CacheKeysAnyPrefix(store) ==
    {k \in DOMAIN store : store[k] # NoItem}

\* the keys pruneCache collects
CacheKeys(store) ==
    {k \in DOMAIN store : store[k] # NoItem /\ StartsWith(k, CACHE_PREFIX)}

\* variant: a string that cannot be parsed, or has no timestamp, ranks as newest
PruneTimestampCorruptLast(text) ==
    LET parsed == JSON_parse(text) IN
    IF ~parsed.ok THEN CACHE_EXPIRY_MS
    ELSE IF "timestamp" \in DOMAIN parsed.value THEN parsed.value.timestamp
    ELSE CACHE_EXPIRY_MS

\* the timestamp pruneCache ranks a stored string by: item.timestamp || 0,
\* and 0 when JSON.parse throws
PruneTimestamp(text) ==
    LET parsed == JSON_parse(text) IN
    IF ~parsed.ok THEN 0
    ELSE IF "timestamp" \in DOMAIN parsed.value THEN parsed.value.timestamp
    ELSE 0

Min(a, b) == IF a <= b THEN a ELSE b

\* variant: the sort is descending
PruneChoicesNewest(store) ==
    {R \in SUBSET CacheKeys(store) :
        /\ Cardinality(R) = Min(PruneCount, Cardinality(CacheKeys(store)))
        /\ \A a \in R : \A b \in CacheKeys(store) \ R :
              PruneTimestamp(store[a]) >= PruneTimestamp(store[b])}

\* the sets of keys items.sort(...).slice(0, 5) can select: the first five of
\* an ascending order; entries with equal timestamps may come in either order
PruneChoices(store) ==
    {R \in SUBSET CacheKeys(store) :
        /\ Cardinality(R) = Min(PruneCount, Cardinality(CacheKeys(store)))
        /\ \A a \in R : \A b \in CacheKeys(store) \ R :
              PruneTimestamp(store[a]) <= PruneTimestamp(store[b])}

\* pruneCache() removing the selected keys
pruneCache(store, R) ==
    [k \in DOMAIN store |-> IF k \in R THEN NoItem ELSE store[k]]

\* variant: every exception of setItem counts as a quota error
IsQuotaErrorAny(name) == name # "none"

\* e.name === 'QuotaExceededError' || e.name === 'NS_ERROR_DOM_QUOTA_REACHED'
IsQuotaError(name) ==
    name = "QuotaExceededError" \/ name = "NS_ERROR_DOM_QUOTA_REACHED"

\* variant: the exception of the retried setItem is not caught
WriteMatchupLocalRetryEscapes(store, key, text, fault, R) ==
    LET first == setItem(store, key, text, fault) IN
    IF first.error = "none"
    THEN [store |-> first.store, threw |-> FALSE,
          did |-> Wrote(text, 1, "none", {})]
    ELSE IF IsQuotaError(first.error)
    THEN LET retry == setItem(pruneCache(store, R), key, text, "none")
         IN [store |-> retry.store, threw |-> retry.error # "none",
             did |-> Wrote(text, 2, first.error, R)]
    ELSE [store |-> store, threw |-> FALSE,
          did |-> Wrote(text, 1, first.error, {})]

\* saveMatchup, "2. Fallback to LocalStorage": the store afterwards, and
\* whether an exception leaves the method
WriteMatchupLocal(store, key, text, fault, R) ==
    LET first == setItem(store, key, text, fault) IN
    IF first.error = "none"
    THEN [store |-> first.store, threw |-> FALSE,
          did |-> Wrote(text, 1, "none", {})]
    ELSE IF IsQuotaError(first.error)
    THEN LET retry == setItem(pruneCache(store, R), key, text, "none")
         IN [store |-> retry.store, threw |-> FALSE,
             did |-> Wrote(text, 2, first.error, R)]
    ELSE [store |-> store, threw |-> FALSE,
          did |-> Wrote(text, 1, first.error, {})]

\* the selections pruneCache can make inside this write: none is made unless
\* the first setItem throws a quota error
PruneInputs(store, key, text, fault) ==
    IF IsQuotaError(setItem(store, key, text, fault).error)
    THEN PruneChoices(store) ELSE {{}}

\* saveSchedule, "2. Fallback to LocalStorage"
WriteScheduleLocal(store, key, text, fault) ==
    LET first == setItem(store, key, text, fault) IN
    [store |-> first.store, threw |-> FALSE,
     did |-> Wrote(text, 1, first.error, {})]

\* variant: an expired entry is left in localStorage
ReadLocalKeepsExpired(store, key, field, ttl) ==
    LET text == store[key]
        parsed == JSON_parse(text)
    IN  IF text = NoItem
        THEN [value |-> Missing, store |-> store, did |-> Looked(text, FALSE)]
        ELSE IF ~parsed.ok
        THEN [value |-> Missing, store |-> store, did |-> Looked(text, FALSE)]
        ELSE IF "timestamp" \in DOMAIN parsed.value
                /\ now - parsed.value.timestamp < ttl
        THEN [value |-> Found(parsed.value[field]), store |-> store,
              did |-> Looked(text, FALSE)]
        ELSE [value |-> Missing, store |-> store, did |-> Looked(text, FALSE)]

\* variant: a string that cannot be parsed is removed
ReadLocalDropsCorrupt(store, key, field, ttl) ==
    LET text == store[key]
        parsed == JSON_parse(text)
    IN  IF text = NoItem
        THEN [value |-> Missing, store |-> store, did |-> Looked(text, FALSE)]
        ELSE IF ~parsed.ok
        THEN [value |-> Missing, store |-> removeItem(store, key),
              did |-> Looked(text, TRUE)]
        ELSE IF "timestamp" \in DOMAIN parsed.value
                /\ now - parsed.value.timestamp < ttl
        THEN [value |-> Found(parsed.value[field]), store |-> store,
              did |-> Looked(text, FALSE)]
        ELSE [value |-> Missing, store |-> removeItem(store, key),
              did |-> Looked(text, TRUE)]

\* getMatchup / getSchedule, "2. Fallback to LocalStorage": the value returned,
\* the store afterwards and what was done at localStorage (getItem,
\* JSON.parse, the expiry test, removeItem of an expired entry).  `field` is
\* the member returned, `ttl` the expiry.
ReadLocal(store, key, field, ttl) ==
    LET text == store[key]
        parsed == JSON_parse(text)
    IN  IF text = NoItem
        THEN [value |-> Missing, store |-> store, did |-> Looked(text, FALSE)]
        ELSE IF ~parsed.ok
        THEN [value |-> Missing, store |-> store, did |-> Looked(text, FALSE)]
        ELSE IF "timestamp" \in DOMAIN parsed.value
                /\ now - parsed.value.timestamp < ttl
        THEN [value |-> Found(parsed.value[field]), store |-> store,
              did |-> Looked(text, FALSE)]
        ELSE [value |-> Missing, store |-> removeItem(store, key),
              did |-> Looked(text, TRUE)]

---------------------------------------------------------------------------
(* The control flow around each await *)

\* variant: the method returns after an error result as it does after success
AfterMatchupUpsertExitsOnError(answer) ==
    IF answer.kind = "throw" THEN [disable |-> TRUE, exit |-> FALSE]
    ELSE IF answer.kind = "error"
    THEN [disable |-> IsCircuitError(answer.error), exit |-> TRUE]
    ELSE [disable |-> FALSE, exit |-> TRUE]

\* variant: every error result opens the circuit
AfterMatchupUpsertAnyErrorOpens(answer) ==
    IF answer.kind = "throw" THEN [disable |-> TRUE, exit |-> FALSE]
    ELSE IF answer.kind = "error" THEN [disable |-> TRUE, exit |-> FALSE]
    ELSE [disable |-> FALSE, exit |-> TRUE]

\* variant: a successful upsert goes on to the local write
AfterMatchupUpsertWritesThrough(answer) ==
    IF answer.kind = "throw" THEN [disable |-> TRUE, exit |-> FALSE]
    ELSE IF answer.kind = "error"
    THEN [disable |-> IsCircuitError(answer.error), exit |-> FALSE]
    ELSE [disable |-> FALSE, exit |-> FALSE]

\* saveMatchup lines 166-192 after the upsert settled: whether the circuit
\* opens, and whether the method returns before the local write
AfterMatchupUpsert(answer) ==
    IF answer.kind = "throw" THEN [disable |-> TRUE, exit |-> FALSE]
    ELSE IF answer.kind = "error"
    THEN [disable |-> IsCircuitError(answer.error), exit |-> FALSE]
    ELSE [disable |-> FALSE, exit |-> TRUE]

\* variant: a successful schedule upsert returns before the local write
AfterScheduleUpsertExitsOnSuccess(answer) ==
    IF answer.kind = "throw" THEN [disable |-> TRUE, exit |-> FALSE]
    ELSE IF answer.kind = "error"
    THEN [disable |-> IsCircuitError(answer.error), exit |-> FALSE]
    ELSE [disable |-> FALSE, exit |-> TRUE]

\* variant: a failed schedule upsert leaves the circuit flag alone
AfterScheduleUpsertKeepsFlag(answer) ==
    [disable |-> FALSE, exit |-> FALSE]

\* saveSchedule lines 343-366 after the upsert settled
AfterScheduleUpsert(answer) ==
    IF answer.kind = "throw" THEN [disable |-> TRUE, exit |-> FALSE]
    ELSE IF answer.kind = "error"
    THEN [disable |-> IsCircuitError(answer.error), exit |-> FALSE]
    ELSE [disable |-> FALSE, exit |-> FALSE]

\* variant: a row whose age equals the expiry still counts as valid
AfterSingleInclusive(answer, ttl) ==
    IF answer.kind = "throw"
    THEN [disable |-> TRUE, hit |-> FALSE, threw |-> FALSE]
    ELSE IF answer.kind = "error"
    THEN [disable |-> answer.error.code # "PGRST116" /\ IsCircuitError(answer.error),
          hit |-> FALSE, threw |-> FALSE]
    ELSE [disable |-> FALSE, hit |-> now - answer.data.timestamp <= ttl,
          threw |-> FALSE]

\* variant: the row the remote tier returned is used whatever its age
AfterSingleReturnsExpired(answer, ttl) ==
    IF answer.kind = "throw"
    THEN [disable |-> TRUE, hit |-> FALSE, threw |-> FALSE]
    ELSE IF answer.kind = "error"
    THEN [disable |-> answer.error.code # "PGRST116" /\ IsCircuitError(answer.error),
          hit |-> FALSE, threw |-> FALSE]
    ELSE [disable |-> FALSE, hit |-> TRUE, threw |-> FALSE]

\* variant: every error result opens the circuit, the not-found one included
AfterSingleAnyErrorOpens(answer, ttl) ==
    IF answer.kind = "throw"
    THEN [disable |-> TRUE, hit |-> FALSE, threw |-> FALSE]
    ELSE IF answer.kind = "error"
    THEN [disable |-> TRUE, hit |-> FALSE, threw |-> FALSE]
    ELSE [disable |-> FALSE, hit |-> now - answer.data.timestamp < ttl,
          threw |-> FALSE]

\* variant: the row the remote tier returned is never used
AfterSingleIgnoresRow(answer, ttl) ==
    IF answer.kind = "throw"
    THEN [disable |-> TRUE, hit |-> FALSE, threw |-> FALSE]
    ELSE IF answer.kind = "error"
    THEN [disable |-> answer.error.code # "PGRST116" /\ IsCircuitError(answer.error),
          hit |-> FALSE, threw |-> FALSE]
    ELSE [disable |-> FALSE, hit |-> FALSE, threw |-> FALSE]

\* getMatchup lines 219-250 / getSchedule lines 386-412 after .single()
\* settled: whether the circuit opens, whether the row is returned to the
\* caller, and whether an exception leaves the try block
AfterSingle(answer, ttl) ==
    IF answer.kind = "throw"
    THEN [disable |-> TRUE, hit |-> FALSE, threw |-> FALSE]
    ELSE IF answer.kind = "error"
    THEN [disable |-> answer.error.code # "PGRST116" /\ IsCircuitError(answer.error),
          hit |-> FALSE, threw |-> FALSE]
    ELSE [disable |-> FALSE, hit |-> now - answer.data.timestamp < ttl,
          threw |-> FALSE]

\* variant: no catch around the request
AfterSelectIdsUncaught(answer) ==
    IF answer.kind = "throw" THEN [disable |-> FALSE, rows |-> {}, threw |-> TRUE]
    ELSE IF answer.kind = "error"
    THEN [disable |-> IsCircuitError(answer.error), rows |-> {}, threw |-> FALSE]
    ELSE [disable |-> FALSE, rows |-> answer.data, threw |-> FALSE]

\* variant: every error result of the enumeration opens the circuit
AfterSelectIdsAnyErrorOpens(answer) ==
    IF answer.kind = "throw" THEN [disable |-> TRUE, rows |-> {}, threw |-> FALSE]
    ELSE IF answer.kind = "error"
    THEN [disable |-> TRUE, rows |-> {}, threw |-> FALSE]
    ELSE [disable |-> FALSE, rows |-> answer.data, threw |-> FALSE]

\* getCachedGameIds lines 286-307 after .select('id') settled: whether the
\* circuit opens, the rows added, whether an exception leaves the try block
AfterSelectIds(answer) ==
    IF answer.kind = "throw" THEN [disable |-> TRUE, rows |-> {}, threw |-> FALSE]
    ELSE IF answer.kind = "error"
    THEN [disable |-> IsCircuitError(answer.error), rows |-> {}, threw |-> FALSE]
    ELSE [disable |-> FALSE, rows |-> answer.data, threw |-> FALSE]

\* variant: an exception of the count request is not caught
AfterCountUncaught(answer) ==
    IF answer.kind = "data"
    THEN [cloudGameCount |-> Cardinality(answer.data), threw |-> FALSE]
    ELSE [cloudGameCount |-> 0, threw |-> answer.kind = "throw"]

\* getCacheStats lines 466-478 after .select('id', { count }) settled: the
\* cloud game count, and whether an exception leaves the try block
AfterCount(answer) ==
    IF answer.kind = "data"
    THEN [cloudGameCount |-> Cardinality(answer.data), threw |-> FALSE]
    ELSE [cloudGameCount |-> 0, threw |-> FALSE]

\* variant: the flag is cleared whatever the probe reports
AfterProbeAlwaysCloses(answer) ==
    [disabled |-> FALSE, result |-> answer.kind = "data", threw |-> FALSE]

\* variant: a failed probe leaves the flag as it was
AfterProbeFailureKeepsFlag(answer) ==
    IF answer.kind = "data"
    THEN [disabled |-> FALSE, result |-> TRUE, threw |-> FALSE]
    ELSE [disabled |-> isCloudDisabled, result |-> FALSE, threw |-> FALSE]

\* verifyConnection lines 132-153 after the probe settled
AfterProbe(answer) ==
    IF answer.kind = "data"
    THEN [disabled |-> FALSE, result |-> TRUE, threw |-> FALSE]
    ELSE [disabled |-> TRUE, result |-> FALSE, threw |-> FALSE]

---------------------------------------------------------------------------
(* Actions *)

CanCall(t) == inflight[t] = Idle /\ calls < MaxCalls

Suspend(t, call) ==
    /\ inflight' = [inflight EXCEPT ![t] = call]
    /\ ret' = NoReturn
    /\ calls' = calls + 1

\* variant: a call resumes only when no other call is suspended
ResumeWaitsForOthers(t, op) ==
    /\ inflight[t] # Idle
    /\ inflight[t].op = op
    /\ \A u \in Tasks \ {t} : inflight[u] = Idle

Resume(t, op) == inflight[t] # Idle /\ inflight[t].op = op

\* variant: the request of a call that returned is still in flight
CompleteReissues(t) == inflight

\* the method runs from its one await to its end: no second request
Complete(t) == [inflight EXCEPT ![t] = Idle]

\* Date.now() moves on.  The instants are hours apart, and no request is in
\* flight that long.
Tick ==
    /\ \A t \in Tasks : inflight[t] = Idle
    /\ \E later \in Instants : later > now /\ now' = later
    /\ ret' = NoReturn
    /\ lastSave' = Forget(lastSave, now')
    /\ UNCHANGED <<supabase, isCloudDisabled, localStorage, quota, matchups,
                   schedules, inflight, calls, history>>

\* verifyConnection(), up to the await
VerifyConnectionCall(t) ==
    /\ CanCall(t)
    /\ IF ~supabase
       THEN /\ isCloudDisabled' = TRUE
            /\ ret' = Returned("verifyConnection", <<>>, NoRequest, NoWrite, Found(FALSE))
            /\ lastSave' = Disturb(lastSave, TRUE)
            /\ calls' = calls + 1
            /\ UNCHANGED inflight
       ELSE /\ Suspend(t, [op |-> "verifyConnection"])
            /\ UNCHANGED <<isCloudDisabled, lastSave>>
    /\ UNCHANGED <<supabase, localStorage, quota, matchups, schedules, now, history>>

\* verifyConnection(), after the await
VerifyConnectionReturn(t, o) ==
    /\ Resume(t, "verifyConnection")
    /\ LET answer == IdsAnswer(matchups, o)
           after == AfterProbe(answer)
       IN /\ isCloudDisabled' = after.disabled
          /\ ret' = Returned("verifyConnection", <<>>, answer, NoWrite,
                             Settle(after.threw, Found(after.result)))
          /\ lastSave' = Disturb(lastSave, after.disabled)
    /\ inflight' = Complete(t)
    /\ UNCHANGED <<supabase, localStorage, quota, matchups, schedules, now, calls, history>>

\* saveMatchup, from "2. Fallback to LocalStorage" to the end
SaveMatchupLocal(id, item, open, answer, flag, fault) ==
    LET key == KeyOf(CACHE_PREFIX, id)
        text == JSON_stringify(item)
    IN  \E R \in PruneInputs(localStorage, key, text, fault) :
        LET w == WriteMatchupLocal(localStorage, key, text, fault, R) IN
        /\ localStorage' = w.store
        /\ isCloudDisabled' = flag
        /\ ret' = Returned("saveMatchup", key, answer, w.did,
                           IF w.threw THEN Rejected ELSE Resolved)
        /\ lastSave' = SaveRecord(key, item.payload, item.timestamp, open,
                                   answer, w.store[key] = text)

\* saveMatchup(gameId, data), up to the await
SaveMatchupCall(t, id, data, fault) ==
    /\ CanCall(t)
    /\ LET item == [timestamp |-> now, payload |-> data] IN
       IF CloudUsable
       THEN /\ Suspend(t, [op |-> "saveMatchup", id |-> id, item |-> item,
                           wasDisabled |-> isCloudDisabled])
            /\ UNCHANGED <<isCloudDisabled, localStorage, lastSave>>
       ELSE /\ SaveMatchupLocal(id, item, isCloudDisabled, NoRequest,
                                 isCloudDisabled, fault)
            /\ calls' = calls + 1
            /\ UNCHANGED inflight
    /\ UNCHANGED <<supabase, quota, matchups, schedules, now, history>>

\* saveMatchup(gameId, data), after the await
SaveMatchupReturn(t, o, fault) ==
    /\ Resume(t, "saveMatchup")
    /\ LET call == inflight[t]
           key == KeyOf(CACHE_PREFIX, call.id)
           answer == UpsertAnswer(o)
           after == AfterMatchupUpsert(answer)
       IN /\ matchups' = IF answer.kind = "data"
                         THEN [matchups EXCEPT ![call.id] = MatchupRow(call.id, call.item)]
                         ELSE matchups
          /\ IF after.exit
             THEN /\ ret' = Returned("saveMatchup", key, answer, NoWrite, Resolved)
                  /\ lastSave' = SaveRecord(key, call.item.payload,
                                             call.item.timestamp,
                                             call.wasDisabled, answer, FALSE)
                  /\ UNCHANGED <<isCloudDisabled, localStorage>>
             ELSE SaveMatchupLocal(call.id, call.item, call.wasDisabled, answer,
                                   isCloudDisabled \/ after.disable, fault)
    /\ inflight' = Complete(t)
    /\ UNCHANGED <<supabase, quota, schedules, now, calls, history>>

\* getMatchup, from "2. Fallback to LocalStorage" to the end
GetMatchupLocal(id, answer, flag) ==
    LET key == KeyOf(CACHE_PREFIX, id)
        r == ReadLocal(localStorage, key, "payload", CACHE_EXPIRY_MS)
    IN  /\ localStorage' = r.store
        /\ isCloudDisabled' = flag
        /\ ret' = Returned("getMatchup", key, answer, r.did, r.value)
        /\ lastSave' = Disturb(lastSave, flag)

\* getMatchup(gameId), up to the await
GetMatchupCall(t, id) ==
    /\ CanCall(t)
    /\ IF CloudUsable
       THEN /\ Suspend(t, [op |-> "getMatchup", id |-> id])
            /\ UNCHANGED <<isCloudDisabled, localStorage, lastSave>>
       ELSE /\ GetMatchupLocal(id, NoRequest, isCloudDisabled)
            /\ calls' = calls + 1
            /\ UNCHANGED inflight
    /\ UNCHANGED <<supabase, quota, matchups, schedules, now, history>>

\* variant: a row returned to the caller is copied into localStorage
GetMatchupReturnCachesHit(t, o) ==
    /\ Resume(t, "getMatchup")
    /\ LET call == inflight[t]
           key == KeyOf(CACHE_PREFIX, call.id)
           answer == SingleAnswer(matchups, call.id, o)
           after == AfterSingle(answer, CACHE_EXPIRY_MS)
       IN IF after.threw
          THEN /\ ret' = Returned("getMatchup", key, answer, NoWrite, Rejected)
               /\ UNCHANGED <<isCloudDisabled, localStorage, lastSave>>
          ELSE IF after.hit
          THEN /\ ret' = Returned("getMatchup", key, answer,
                                  NoWrite, Found(MatchupOfRow(answer.data)))
               /\ localStorage' =
                     [localStorage EXCEPT ![key] =
                         JSON_stringify([timestamp |-> answer.data.timestamp,
                                         payload |-> MatchupOfRow(answer.data)])]
               /\ UNCHANGED <<isCloudDisabled, lastSave>>
          ELSE GetMatchupLocal(call.id, answer, isCloudDisabled \/ after.disable)
    /\ inflight' = Complete(t)
    /\ UNCHANGED <<supabase, quota, matchups, schedules, now, calls, history>>

\* getMatchup(gameId), after the await
GetMatchupReturn(t, o) ==
    /\ Resume(t, "getMatchup")
    /\ LET call == inflight[t]
           answer == SingleAnswer(matchups, call.id, o)
           after == AfterSingle(answer, CACHE_EXPIRY_MS)
       IN IF after.threw
          THEN /\ ret' = Returned("getMatchup", KeyOf(CACHE_PREFIX, call.id), answer,
                                  NoWrite, Rejected)
               /\ UNCHANGED <<isCloudDisabled, localStorage, lastSave>>
          ELSE IF after.hit
          THEN /\ ret' = Returned("getMatchup", KeyOf(CACHE_PREFIX, call.id), answer,
                                  NoWrite, Found(MatchupOfRow(answer.data)))
               /\ UNCHANGED <<isCloudDisabled, localStorage, lastSave>>
          ELSE GetMatchupLocal(call.id, answer, isCloudDisabled \/ after.disable)
    /\ inflight' = Complete(t)
    /\ UNCHANGED <<supabase, quota, matchups, schedules, now, calls, history>>

\* variant: an array push, which keeps duplicates
SetAddAppends(ids, x) == Append(ids, x)

\* ids.add(x) on a Set kept in insertion order
SetAdd(ids, x) ==
    IF \E i \in 1..Len(ids) : ids[i] = x THEN ids ELSE Append(ids, x)

\* ids.add(x) for every x of a collection, in the order it is enumerated
RECURSIVE AddAll(_, _)
AddAll(ids, S) ==
    IF S = {} THEN ids
    ELSE LET x == CHOOSE y \in S : TRUE
         IN AddAll(SetAdd(ids, x), S \ {x})

\* getCachedGameIds step 1: the ids of the local keys under the cache prefix
LocalIds(store) ==
    AddAll(<<>>, {StripPrefix(k, CACHE_PREFIX) : k \in CacheKeys(store)})

\* getCachedGameIds(), up to the await
GetCachedGameIdsCall(t) ==
    /\ CanCall(t)
    /\ IF CloudUsable
       THEN Suspend(t, [op |-> "getCachedGameIds", ids |-> LocalIds(localStorage)])
       ELSE /\ ret' = Returned("getCachedGameIds", <<>>, NoRequest, NoWrite,
                               Found(LocalIds(localStorage)))
            /\ calls' = calls + 1
            /\ UNCHANGED inflight
    /\ UNCHANGED <<supabase, isCloudDisabled, localStorage, quota, matchups,
                   schedules, now, lastSave, history>>

\* getCachedGameIds(), after the await
GetCachedGameIdsReturn(t, o) ==
    /\ Resume(t, "getCachedGameIds")
    /\ LET answer == IdsAnswer(matchups, o)
           after == AfterSelectIds(answer)
           flag == isCloudDisabled \/ after.disable
       IN /\ isCloudDisabled' = flag
          /\ ret' = Returned("getCachedGameIds", <<>>, answer, NoWrite,
                             Settle(after.threw,
                                    Found(AddAll(inflight[t].ids, after.rows))))
          /\ lastSave' = Disturb(lastSave, flag)
    /\ inflight' = Complete(t)
    /\ UNCHANGED <<supabase, localStorage, quota, matchups, schedules, now, calls, history>>

\* saveSchedule, from "2. Fallback to LocalStorage" to the end
SaveScheduleLocal(week, cache, open, answer, flag, fault) ==
    LET key == KeyOf(SCHEDULE_CACHE_PREFIX, week)
        text == JSON_stringify(cache)
        w == WriteScheduleLocal(localStorage, key, text, fault)
    IN  /\ localStorage' = w.store
        /\ isCloudDisabled' = flag
        /\ ret' = Returned("saveSchedule", key, answer, w.did,
                           IF w.threw THEN Rejected ELSE Resolved)
        /\ lastSave' = SaveRecord(key, cache.games, cache.timestamp, open,
                                   answer, w.store[key] = text)

\* saveSchedule(week, games), up to the await
SaveScheduleCall(t, week, games, fault) ==
    /\ CanCall(t)
    /\ LET cache == [week |-> week, games |-> games, timestamp |-> now] IN
       IF CloudUsable
       THEN /\ Suspend(t, [op |-> "saveSchedule", cache |-> cache,
                           row |-> ScheduleRow(week, games, now),
                           wasDisabled |-> isCloudDisabled])
            /\ UNCHANGED <<isCloudDisabled, localStorage, lastSave>>
       ELSE /\ SaveScheduleLocal(week, cache, isCloudDisabled, NoRequest,
                                  isCloudDisabled, fault)
            /\ calls' = calls + 1
            /\ UNCHANGED inflight
    /\ UNCHANGED <<supabase, quota, matchups, schedules, now, history>>

\* saveSchedule(week, games), after the await
SaveScheduleReturn(t, o, fault) ==
    /\ Resume(t, "saveSchedule")
    /\ LET call == inflight[t]
           answer == UpsertAnswer(o)
           after == AfterScheduleUpsert(answer)
       IN /\ schedules' = IF answer.kind = "data"
                          THEN [schedules EXCEPT ![call.row.id] = call.row]
                          ELSE schedules
          /\ IF after.exit
             THEN /\ ret' = Returned("saveSchedule",
                                     KeyOf(SCHEDULE_CACHE_PREFIX, call.cache.week),
                                     answer, NoWrite, Resolved)
                  /\ lastSave' = SaveRecord(KeyOf(SCHEDULE_CACHE_PREFIX, call.cache.week),
                                             call.cache.games, call.cache.timestamp,
                                             call.wasDisabled, answer, FALSE)
                  /\ UNCHANGED <<isCloudDisabled, localStorage>>
             ELSE SaveScheduleLocal(call.cache.week, call.cache, call.wasDisabled,
                                    answer, isCloudDisabled \/ after.disable, fault)
    /\ inflight' = Complete(t)
    /\ UNCHANGED <<supabase, quota, matchups, now, calls, history>>

\* getSchedule, from "2. Fallback to LocalStorage" to the end
GetScheduleLocal(week, answer, flag) ==
    LET key == KeyOf(SCHEDULE_CACHE_PREFIX, week)
        r == ReadLocal(localStorage, key, "games", SCHEDULE_EXPIRY_MS)
    IN  /\ localStorage' = r.store
        /\ isCloudDisabled' = flag
        /\ ret' = Returned("getSchedule", key, answer, r.did, r.value)
        /\ lastSave' = Disturb(lastSave, flag)

\* getSchedule(week), up to the await
GetScheduleCall(t, week) ==
    /\ CanCall(t)
    /\ IF CloudUsable
       THEN /\ Suspend(t, [op |-> "getSchedule", id |-> week])
            /\ UNCHANGED <<isCloudDisabled, localStorage, lastSave>>
       ELSE /\ GetScheduleLocal(week, NoRequest, isCloudDisabled)
            /\ calls' = calls + 1
            /\ UNCHANGED inflight
    /\ UNCHANGED <<supabase, quota, matchups, schedules, now, history>>

\* getSchedule(week), after the await
GetScheduleReturn(t, o) ==
    /\ Resume(t, "getSchedule")
    /\ LET call == inflight[t]
           answer == SingleAnswer(schedules, call.id, o)
           after == AfterSingle(answer, SCHEDULE_EXPIRY_MS)
       IN IF after.threw
          THEN /\ ret' = Returned("getSchedule", KeyOf(SCHEDULE_CACHE_PREFIX, call.id),
                                  answer, NoWrite, Rejected)
               /\ UNCHANGED <<isCloudDisabled, localStorage, lastSave>>
          ELSE IF after.hit
          THEN /\ ret' = Returned("getSchedule", KeyOf(SCHEDULE_CACHE_PREFIX, call.id),
                                  answer, NoWrite, Found(answer.data.games))
               /\ UNCHANGED <<isCloudDisabled, localStorage, lastSave>>
          ELSE GetScheduleLocal(call.id, answer, isCloudDisabled \/ after.disable)
    /\ inflight' = Complete(t)
    /\ UNCHANGED <<supabase, quota, matchups, schedules, now, calls, history>>

Max(a, b) == IF a >= b THEN a ELSE b

\* getCacheStats lines 443-463: the counts taken from localStorage
LocalStats(store) ==
    [games |-> Cardinality({StripPrefix(k, CACHE_PREFIX) : k \in CacheKeys(store)}),
     size |-> SumLength(store, CacheKeys(store)),
     schedules |-> Cardinality({k \in DOMAIN store :
                      store[k] # NoItem /\ StartsWith(k, SCHEDULE_CACHE_PREFIX)})]

\* getCacheStats lines 480-485
StatsResult(local, cloudGameCount) ==
    [totalGames |-> Max(local.games, cloudGameCount),
     totalSchedules |-> local.schedules,
     isCloudConnected |-> supabase /\ ~isCloudDisabled,
     localStorageSize |-> local.size]

\* getCacheStats(), up to the await
GetCacheStatsCall(t) ==
    /\ CanCall(t)
    /\ IF CloudUsable
       THEN Suspend(t, [op |-> "getCacheStats", local |-> LocalStats(localStorage)])
       ELSE /\ ret' = Returned("getCacheStats", <<>>, NoRequest, NoWrite,
                               Found(StatsResult(LocalStats(localStorage), 0)))
            /\ calls' = calls + 1
            /\ UNCHANGED inflight
    /\ UNCHANGED <<supabase, isCloudDisabled, localStorage, quota, matchups,
                   schedules, now, lastSave, history>>

\* variant: a failed count request opens the circuit as the other calls do
GetCacheStatsReturnOpensCircuit(t, o) ==
    /\ Resume(t, "getCacheStats")
    /\ LET answer == IdsAnswer(matchups, o)
           after == AfterCount(answer)
       IN /\ ret' = Returned("getCacheStats", <<>>, answer, NoWrite,
                             Settle(after.threw,
                                    Found(StatsResult(inflight[t].local,
                                                      after.cloudGameCount))))
          /\ isCloudDisabled' = (isCloudDisabled \/ AfterSelectIds(answer).disable)
    /\ inflight' = Complete(t)
    /\ UNCHANGED <<supabase, localStorage, quota, matchups,
                   schedules, now, lastSave, calls, history>>

\* getCacheStats(), after the await
GetCacheStatsReturn(t, o) ==
    /\ Resume(t, "getCacheStats")
    /\ LET answer == IdsAnswer(matchups, o)
           after == AfterCount(answer)
       IN ret' = Returned("getCacheStats", <<>>, answer, NoWrite,
                          Settle(after.threw,
                                 Found(StatsResult(inflight[t].local,
                                                   after.cloudGameCount))))
    /\ inflight' = Complete(t)
    /\ UNCHANGED <<supabase, isCloudDisabled, localStorage, quota, matchups,
                   schedules, now, lastSave, calls, history>>

---------------------------------------------------------------------------
(* Specifications *)

\* no App handler runs on the task
NoHandler == [at |-> "none"]

\* setResult(null), setSources([])
NoResult == [game |-> Null, data |-> Null, sources |-> <<>>]

\* setResult(data), setSources(sources) by the handler of `game`
Shown(game, payload) ==
    [game |-> game, data |-> payload.data, sources |-> payload.sources]

\* nothing is selected and nothing is shown
NothingShown ==
    /\ selectedGame = Null
    /\ result = NoResult
    /\ rosterData = Null

\* the App component is not mounted: the calls are those of any client
AppNotMounted ==
    /\ cloudStatus = "checking"
    /\ cachedGameIds = {}
    /\ handler = [t \in Tasks |-> NoHandler]
    /\ NothingShown

\* a step that is not one of the App component
NoApp ==
    UNCHANGED <<cloudStatus, cachedGameIds, handler, selectedGame, result,
                rosterData>>

\* a step that sets none of the states of the selected game
SameDisplay == UNCHANGED <<selectedGame, result, rosterData>>

\* a fresh page load in a browser with an empty localStorage
Start ==
    /\ supabase \in BOOLEAN
    /\ isCloudDisabled = FALSE
    /\ localStorage = [k \in LocalKeys(GameIds, Weeks) |-> NoItem]
    /\ quota = QuotaUnits
    /\ matchups = [g \in GameIds |-> NoRow]
    /\ schedules = [w \in Weeks |-> NoRow]
    /\ now = 1
    /\ inflight = [t \in Tasks |-> Idle]
    /\ ret = NoReturn
    /\ lastSave = NoSave
    /\ AppNotMounted
    /\ calls = 0

Init == Start /\ history = FALSE

InitHistory == Start /\ history = TRUE

\* the calls that save and read entries, for the game ids of `ids`, and the
\* connectivity probe
EntryCalls(t, ids) ==
    \/ VerifyConnectionCall(t) /\ NoApp
    \/ \E o \in RemoteOutcomes : VerifyConnectionReturn(t, o) /\ NoApp
    \/ \E id \in ids, data \in Payloads, fault \in StorageFaults :
         SaveMatchupCall(t, id, data, fault) /\ NoApp
    \/ \E o \in RemoteOutcomes, fault \in StorageFaults :
         SaveMatchupReturn(t, o, fault) /\ NoApp
    \/ \E id \in ids : GetMatchupCall(t, id) /\ NoApp
    \/ \E o \in RemoteOutcomes : GetMatchupReturn(t, o) /\ NoApp
    \/ \E week \in Weeks, games \in GamesLists, fault \in StorageFaults :
         SaveScheduleCall(t, week, games, fault) /\ NoApp
    \/ \E o \in RemoteOutcomes, fault \in StorageFaults :
         SaveScheduleReturn(t, o, fault) /\ NoApp
    \/ \E week \in Weeks : GetScheduleCall(t, week) /\ NoApp
    \/ \E o \in RemoteOutcomes : GetScheduleReturn(t, o) /\ NoApp

\* the calls that enumerate and count
ListingCalls(t) ==
    \/ GetCachedGameIdsCall(t) /\ NoApp
    \/ \E o \in RemoteOutcomes : GetCachedGameIdsReturn(t, o) /\ NoApp
    \/ GetCacheStatsCall(t) /\ NoApp
    \/ \E o \in RemoteOutcomes : GetCacheStatsReturn(t, o) /\ NoApp

Next ==
    \/ Tick /\ NoApp
    \/ \E t \in Callers : EntryCalls(t, GameIds)
    \/ \E t \in Callers : ListingCalls(t)

\* the game the observed client works on
HistoryIds == {"g1"}

NextHistory ==
    \/ Tick /\ NoApp
    \/ \E t \in Callers : EntryCalls(t, HistoryIds)

Spec == Init /\ [][Next]_vars

\* the entry calls with the observer of the saves switched on
SpecHistory == InitHistory /\ [][NextHistory]_vars

\* the game ids in a fixed order
PruneSeq == <<"g1", "g2", "g3", "g4", "g5", "g6">>

\* a localStorage left by earlier sessions: matchup entries under the game
\* ids of `present`, the i-th id saved at instant ((i + shift) mod 6) + 1,
\* and the stored schedule `schedule`
FilledStore(present, shift, schedule) ==
    [k \in LocalKeys(PruneIds, Weeks) |->
        IF StartsWith(k, SCHEDULE_CACHE_PREFIX) THEN schedule
        ELSE IF StripPrefix(k, CACHE_PREFIX) \notin present THEN NoItem
        ELSE LET i == CHOOSE j \in 1..Len(PruneSeq) :
                          PruneSeq[j] = StripPrefix(k, CACHE_PREFIX)
             IN JSON_stringify([timestamp |-> ((i + shift) % Len(PruneSeq)) + 1,
                                payload |-> PayloadB])]

\* the schedule entries an earlier session can have left
StoredSchedules ==
    {NoItem} \cup {JSON_stringify([week |-> "w1", games |-> g, timestamp |-> 1]) :
                      g \in GamesLists}

\* a page load over a localStorage that earlier sessions filled, with one
\* call left to make
InitPrune ==
    /\ supabase \in BOOLEAN
    /\ isCloudDisabled = FALSE
    /\ quota = QuotaUnits
    /\ \E present \in SUBSET PruneIds, shift \in 0..(Len(PruneSeq) - 1),
          schedule \in StoredSchedules :
          /\ Cardinality(present) >= PruneCount - 1
          /\ localStorage = FilledStore(present, shift, schedule)
    /\ Used(localStorage) <= quota
    /\ matchups = [g \in PruneIds |-> NoRow]
    /\ schedules = [w \in Weeks |-> NoRow]
    /\ now = Len(PruneSeq) + 1
    /\ inflight = [t \in Tasks |-> Idle]
    /\ ret = NoReturn
    /\ lastSave = NoSave
    /\ AppNotMounted
    /\ history = FALSE
    /\ calls = MaxCalls - 1

NextPrune ==
    \E t \in Callers :
        \/ \E id \in PruneIds, data \in Payloads, fault \in StorageFaults :
             SaveMatchupCall(t, id, data, fault) /\ NoApp
        \/ \E o \in RemoteOutcomes, fault \in StorageFaults :
             SaveMatchupReturn(t, o, fault) /\ NoApp

\* a localStorage left by earlier sessions in which the strings under the
\* game ids of `corrupt` cannot be parsed and the entries under those of
\* `bare` have no timestamp; the i-th id of the others was saved at instant i
CorruptStore(present, corrupt, bare) ==
    [k \in LocalKeys(PruneIds, Weeks) |->
        IF StartsWith(k, SCHEDULE_CACHE_PREFIX) THEN NoItem
        ELSE IF StripPrefix(k, CACHE_PREFIX) \notin present THEN NoItem
        ELSE IF StripPrefix(k, CACHE_PREFIX) \in corrupt THEN Garbage
        ELSE IF StripPrefix(k, CACHE_PREFIX) \in bare
        THEN JSON_stringify([payload |-> PayloadB])
        ELSE LET i == CHOOSE j \in 1..Len(PruneSeq) :
                          PruneSeq[j] = StripPrefix(k, CACHE_PREFIX)
             IN JSON_stringify([timestamp |-> i, payload |-> PayloadB])]

InitCorrupt ==
    /\ supabase \in BOOLEAN
    /\ isCloudDisabled = FALSE
    /\ quota = QuotaUnits
    /\ \E present \in SUBSET PruneIds :
       \E corrupt \in SUBSET present :
       \E bare \in SUBSET (present \ corrupt) :
          /\ Cardinality(present) >= PruneCount
          /\ corrupt \cup bare # {}
          /\ localStorage = CorruptStore(present, corrupt, bare)
    /\ Used(localStorage) <= quota
    /\ matchups = [g \in PruneIds |-> NoRow]
    /\ schedules = [w \in Weeks |-> NoRow]
    /\ now = Len(PruneSeq) + 1
    /\ inflight = [t \in Tasks |-> Idle]
    /\ ret = NoReturn
    /\ lastSave = NoSave
    /\ AppNotMounted
    /\ history = FALSE
    /\ calls = MaxCalls - 1

\* one saveMatchup call over a localStorage with corrupt entries
SpecCorrupt == InitCorrupt /\ [][NextPrune]_vars

\* a key of the same origin that is not one of the cache, and its string
ForeignKey == <<"theme">>
ForeignText == <<"dark">>

\* a page load over a localStorage that holds, with the matchup entries and
\* the schedule of earlier sessions, a string under a key of another
\* feature; one call is left to make
InitForeign ==
    /\ supabase \in BOOLEAN
    /\ isCloudDisabled = FALSE
    /\ quota = QuotaUnits
    /\ \E present \in SUBSET PruneIds, shift \in 0..(Len(PruneSeq) - 1),
          schedule \in StoredSchedules :
          /\ Cardinality(present) >= PruneCount
          /\ localStorage =
                [k \in LocalKeys(PruneIds, Weeks) \cup {ForeignKey} |->
                    IF k = ForeignKey THEN ForeignText
                    ELSE FilledStore(present, shift, schedule)[k]]
    /\ Used(localStorage) <= quota
    /\ matchups = [g \in PruneIds |-> NoRow]
    /\ schedules = [w \in Weeks |-> NoRow]
    /\ now = Len(PruneSeq) + 1
    /\ inflight = [t \in Tasks |-> Idle]
    /\ ret = NoReturn
    /\ lastSave = NoSave
    /\ AppNotMounted
    /\ history = FALSE
    /\ calls = MaxCalls - 1

\* one saveMatchup call over a localStorage shared with another feature
SpecForeign == InitForeign /\ [][NextPrune]_vars

\* the strings an earlier session, or another writer of the origin, can have
\* left under a matchup key: none, one that is not JSON, an entry without
\* timestamp, an entry of the first instant
LeftMatchups ==
    {NoItem, Garbage, JSON_stringify([payload |-> PayloadB]),
     JSON_stringify([timestamp |-> 1, payload |-> PayloadB])}

\* the same under a schedule key
LeftSchedules == StoredSchedules \cup {Garbage}

\* a page load over what earlier sessions left in localStorage and in the
\* remote table, with two calls left to make
InitLeft ==
    /\ supabase \in BOOLEAN
    /\ isCloudDisabled = FALSE
    /\ quota = QuotaUnits
    /\ \E first \in LeftMatchups, second \in {NoItem, Garbage},
          schedule \in LeftSchedules :
          localStorage =
            [k \in LocalKeys(GameIds, Weeks) |->
                IF k = KeyOf(CACHE_PREFIX, "g1") THEN first
                ELSE IF k = KeyOf(CACHE_PREFIX, "g2") THEN second
                ELSE schedule]
    /\ Used(localStorage) <= quota
    /\ \E row \in {NoRow, MatchupRow("g1", [timestamp |-> 1, payload |-> PayloadA])} :
          matchups = [g \in GameIds |-> IF g = "g1" THEN row ELSE NoRow]
    /\ schedules = [w \in Weeks |-> NoRow]
    /\ now = 1
    /\ inflight = [t \in Tasks |-> Idle]
    /\ ret = NoReturn
    /\ lastSave = NoSave
    /\ AppNotMounted
    /\ history = FALSE
    /\ calls = MaxCalls - 2

\* the calls that read: the gets and getCachedGameIds
NextLeft ==
    \/ Tick /\ NoApp
    \/ \E t \in Callers :
         \/ \E id \in GameIds : GetMatchupCall(t, id) /\ NoApp
         \/ \E o \in RemoteOutcomes : GetMatchupReturn(t, o) /\ NoApp
         \/ \E week \in Weeks : GetScheduleCall(t, week) /\ NoApp
         \/ \E o \in RemoteOutcomes : GetScheduleReturn(t, o) /\ NoApp
         \/ GetCachedGameIdsCall(t) /\ NoApp
         \/ \E o \in RemoteOutcomes : GetCachedGameIdsReturn(t, o) /\ NoApp

\* two reading calls over what earlier sessions left
SpecLeft == InitLeft /\ [][NextLeft]_vars

\* one saveMatchup call over a filled localStorage
SpecPrune == InitPrune /\ [][NextPrune]_vars

---------------------------------------------------------------------------
(* The App component: initApp and handleSelectGame *)

\* the elements of a sequence
Range(seq) == {seq[i] : i \in 1..Len(seq)}

\* what getKeyPlayersAndStats settles with: { rosters } or an exception
RosterOutcomes == {"rosters", "throw"}

\* what getDeepAnalysis settles with: { data, sources, rawText }, where data
\* is null when the answer could not be parsed, or an exception
AnalysisOutcomes ==
    {[kind |-> "ok", response |-> p] : p \in Payloads} \cup {[kind |-> "throw"]}

\* the handler on task t goes on to `place`
Goto(t, place) == handler' = [handler EXCEPT ![t].at = place]

\* the handler ends: what it was about and how it ended
End(t, how) ==
    handler' = [handler EXCEPT ![t].at = "ended", ![t].how = how]

\* a StorageService call made by the handler on task t: when the call
\* suspends at its request the handler waits at `waiting`, and when it
\* returns within the step the handler goes on with `continuation`
Awaited(t, waiting, continuation) ==
    IF ret'.op = "none"
    THEN Goto(t, waiting) /\ UNCHANGED <<cloudStatus, cachedGameIds>>
    ELSE continuation

\* a step of the AI client leaves the StorageService alone
StorageUntouched ==
    /\ ret' = NoReturn
    /\ UNCHANGED <<supabase, isCloudDisabled, localStorage, quota, matchups,
                   schedules, now, inflight, calls, history, lastSave>>

\* initApp lines 56 and 65: setCachedGameIds(ids)
IdsLoaded(t, place) ==
    /\ cachedGameIds' = Range(ret'.value.value)
    /\ Goto(t, place)
    /\ UNCHANGED cloudStatus

\* initApp line 55, up to the await
InitAppLocalIdsCall(t) ==
    /\ handler[t].at = "initApp"
    /\ GetCachedGameIdsCall(t)
    /\ Awaited(t, "localIds", IdsLoaded(t, "verifyConnection"))
    /\ SameDisplay

\* initApp lines 55-56, after the await
InitAppLocalIdsReturn(t, o) ==
    /\ handler[t].at = "localIds"
    /\ GetCachedGameIdsReturn(t, o)
    /\ IdsLoaded(t, "verifyConnection")
    /\ SameDisplay

\* initApp lines 60-63: setCloudStatus, and the re-sync only when connected
Verified(t) ==
    /\ cloudStatus' = IF ret'.value.value THEN "connected" ELSE "offline"
    /\ Goto(t, IF ret'.value.value THEN "resync" ELSE "getCacheStats")
    /\ UNCHANGED cachedGameIds

\* initApp line 59, up to the await
InitAppVerifyCall(t) ==
    /\ handler[t].at = "verifyConnection"
    /\ VerifyConnectionCall(t)
    /\ Awaited(t, "isConnected", Verified(t))
    /\ SameDisplay

\* initApp lines 59-63, after the await
InitAppVerifyReturn(t, o) ==
    /\ handler[t].at = "isConnected"
    /\ VerifyConnectionReturn(t, o)
    /\ Verified(t)
    /\ SameDisplay

\* initApp line 64, up to the await
InitAppResyncCall(t) ==
    /\ handler[t].at = "resync"
    /\ GetCachedGameIdsCall(t)
    /\ Awaited(t, "syncedIds", IdsLoaded(t, "getCacheStats"))
    /\ SameDisplay

\* initApp lines 64-65, after the await
InitAppResyncReturn(t, o) ==
    /\ handler[t].at = "syncedIds"
    /\ GetCachedGameIdsReturn(t, o)
    /\ IdsLoaded(t, "getCacheStats")
    /\ SameDisplay

\* variant: after the stats the connection is verified again
StatsLoadedReprobes(t) ==
    /\ Goto(t, "verifyConnection")
    /\ UNCHANGED <<cloudStatus, cachedGameIds>>

\* initApp lines 69-70: setCacheStats(stats) ends initApp
StatsLoaded(t) ==
    /\ End(t, "mounted")
    /\ UNCHANGED <<cloudStatus, cachedGameIds>>

\* initApp line 69, up to the await
InitAppStatsCall(t) ==
    /\ handler[t].at = "getCacheStats"
    /\ GetCacheStatsCall(t)
    /\ Awaited(t, "stats", StatsLoaded(t))
    /\ SameDisplay

\* initApp lines 69-70, after the await
InitAppStatsReturn(t, o) ==
    /\ handler[t].at = "stats"
    /\ GetCacheStatsReturn(t, o)
    /\ StatsLoaded(t)
    /\ SameDisplay

\* handleSelectGame lines 104-110: setResult, setRosterData if the cached
\* data has rosters (an analysis saved by line 148 has them), setSources
FromCache(game, cachedData) ==
    /\ result' = Shown(game, cachedData)
    /\ rosterData' = IF cachedData.data # Null THEN game ELSE rosterData

\* handleSelectGame lines 103-119: a cached matchup is shown and the handler
\* returns; otherwise getKeyPlayersAndStats is called
Looked_up(t) ==
    /\ IF ret'.value = Rejected THEN End(t, "error") /\ SameDisplay
       ELSE IF ret'.value.found
       THEN /\ End(t, "cache")
            /\ FromCache(handler[t].game, ret'.value.value)
            /\ UNCHANGED selectedGame
       ELSE Goto(t, "rosters") /\ SameDisplay
    /\ UNCHANGED <<cloudStatus, cachedGameIds>>

\* handleSelectGame(game) lines 90-101, up to the await of getMatchup
HandleSelectGame(t, id) ==
    /\ handler[t] = NoHandler
    /\ GetMatchupCall(t, id)
    /\ IF ret'.op = "none"
       THEN handler' = [handler EXCEPT ![t] = [at |-> "cachedData", game |-> id,
                                                how |-> "running"]]
       ELSE handler' = [handler EXCEPT ![t] =
                [at |-> IF ret'.value.found THEN "ended" ELSE "rosters",
                 game |-> id,
                 how |-> IF ret'.value.found THEN "cache" ELSE "running"]]
    /\ selectedGame' = id
    /\ IF ret'.op # "none" /\ ret'.value.found
       THEN /\ result' = Shown(id, ret'.value.value)
            /\ rosterData' = IF ret'.value.value.data # Null THEN id ELSE Null
       ELSE result' = NoResult /\ rosterData' = Null
    /\ UNCHANGED <<cloudStatus, cachedGameIds>>

\* handleSelectGame lines 101-119, after the await of getMatchup
HandleSelectGameLookedUp(t, o) ==
    /\ handler[t].at = "cachedData"
    /\ GetMatchupReturn(t, o)
    /\ Looked_up(t)

\* handleSelectGame lines 119-127: getKeyPlayersAndStats settled, and
\* getDeepAnalysis is called; an exception goes to the catch of line 160
HandleSelectGameRosters(t, r) ==
    /\ handler[t].at = "rosters"
    /\ IF r = "throw"
       THEN End(t, "error") /\ UNCHANGED rosterData
       ELSE Goto(t, "analysis") /\ rosterData' = handler[t].game
    /\ StorageUntouched
    /\ UNCHANGED <<cloudStatus, cachedGameIds, selectedGame, result>>

\* handleSelectGame lines 135-142: setResult(finalData),
\* setSources(analysisResponse.sources); none when getDeepAnalysis threw
Analysed(t, a) ==
    result' = IF a.kind = "throw" THEN result
              ELSE Shown(handler[t].game, a.response)

\* variant: the result is saved without the test of finalData
HandleSelectGameAnalysisAlwaysSaves(t, a) ==
    /\ handler[t].at = "analysis"
    /\ IF a.kind = "throw" THEN End(t, "error")
       ELSE handler' = [handler EXCEPT ![t] =
                [at |-> "saveMatchup", game |-> handler[t].game,
                 how |-> "running", response |-> a.response]]
    /\ Analysed(t, a)
    /\ StorageUntouched
    /\ UNCHANGED <<cloudStatus, cachedGameIds, selectedGame, rosterData>>

\* handleSelectGame lines 127-147: getDeepAnalysis settled; the result is
\* shown, and saved only if (finalData)
HandleSelectGameAnalysis(t, a) ==
    /\ handler[t].at = "analysis"
    /\ IF a.kind = "throw" THEN End(t, "error")
       ELSE IF a.response.data = Null THEN End(t, "analysis")
       ELSE handler' = [handler EXCEPT ![t] =
                [at |-> "saveMatchup", game |-> handler[t].game,
                 how |-> "running", response |-> a.response]]
    /\ Analysed(t, a)
    /\ StorageUntouched
    /\ UNCHANGED <<cloudStatus, cachedGameIds, selectedGame, rosterData>>

\* handleSelectGame lines 153-158: the id joins the cached ids
Saved(t) ==
    /\ IF ret'.value = Rejected
       THEN End(t, "error") /\ UNCHANGED cachedGameIds
       ELSE /\ cachedGameIds' = cachedGameIds \cup {handler[t].game}
            /\ End(t, "saved")
    /\ UNCHANGED cloudStatus

\* handleSelectGame lines 148-152, up to the await of saveMatchup
HandleSelectGameSaveCall(t, fault) ==
    /\ handler[t].at = "saveMatchup"
    /\ SaveMatchupCall(t, handler[t].game, handler[t].response, fault)
    /\ Awaited(t, "saving", Saved(t))
    /\ SameDisplay

\* handleSelectGame lines 148-158, after the await of saveMatchup
HandleSelectGameSaveReturn(t, o, fault) ==
    /\ handler[t].at = "saving"
    /\ SaveMatchupReturn(t, o, fault)
    /\ Saved(t)
    /\ SameDisplay

\* the App component mounts in a browser whose localStorage and whose
\* remote table may hold the matchup of g1 from an earlier session; initApp
\* runs on t1, and t2 is free for the game the user selects.  The counter
\* leaves room for the four calls of initApp and the two of a selection.
InitMounted ==
    /\ supabase \in BOOLEAN
    /\ isCloudDisabled = FALSE
    /\ quota = QuotaUnits
    /\ \E held \in BOOLEAN :
          localStorage = [k \in LocalKeys(GameIds, Weeks) |->
              IF held /\ k = KeyOf(CACHE_PREFIX, "g1")
              THEN JSON_stringify([timestamp |-> 1, payload |-> PayloadB])
              ELSE NoItem]
    /\ \E row \in BOOLEAN :
          matchups = [g \in GameIds |->
              IF row /\ supabase /\ g = "g1"
              THEN MatchupRow(g, [timestamp |-> 1, payload |-> PayloadB])
              ELSE NoRow]
    /\ schedules = [w \in Weeks |-> NoRow]
    /\ now = 1
    /\ inflight = [t \in Tasks |-> Idle]
    /\ ret = NoReturn
    /\ lastSave = NoSave
    /\ history = FALSE
    /\ calls = MaxCalls - 6
    /\ cloudStatus = "checking"
    /\ cachedGameIds = {}
    /\ handler = [t \in Tasks |-> IF t = "t1" THEN [at |-> "initApp", how |-> "running"]
                                    ELSE NoHandler]
    /\ NothingShown

NextApp ==
    \E t \in Tasks :
        \/ InitAppLocalIdsCall(t)
        \/ \E o \in RemoteOutcomes : InitAppLocalIdsReturn(t, o)
        \/ InitAppVerifyCall(t)
        \/ \E o \in RemoteOutcomes : InitAppVerifyReturn(t, o)
        \/ InitAppResyncCall(t)
        \/ \E o \in RemoteOutcomes : InitAppResyncReturn(t, o)
        \/ InitAppStatsCall(t)
        \/ \E o \in RemoteOutcomes : InitAppStatsReturn(t, o)
        \/ \E id \in GameIds : HandleSelectGame(t, id)
        \/ \E o \in RemoteOutcomes : HandleSelectGameLookedUp(t, o)
        \/ \E r \in RosterOutcomes : HandleSelectGameRosters(t, r)
        \/ \E a \in AnalysisOutcomes : HandleSelectGameAnalysis(t, a)
        \/ \E fault \in StorageFaults : HandleSelectGameSaveCall(t, fault)
        \/ \E o \in RemoteOutcomes, fault \in StorageFaults :
             HandleSelectGameSaveReturn(t, o, fault)

\* the request of the call suspended on task t settles, with whatever
\* answer, and the call runs to its end (each Return action implies the
\* first conjunct, which is there to be evaluated first)
Returns(t) ==
    /\ inflight' = Complete(t)
    /\ \/ \E o \in RemoteOutcomes : VerifyConnectionReturn(t, o) /\ NoApp
       \/ \E o \in RemoteOutcomes, fault \in StorageFaults :
            SaveMatchupReturn(t, o, fault) /\ NoApp
       \/ \E o \in RemoteOutcomes : GetMatchupReturn(t, o) /\ NoApp
       \/ \E o \in RemoteOutcomes, fault \in StorageFaults :
            SaveScheduleReturn(t, o, fault) /\ NoApp
       \/ \E o \in RemoteOutcomes : GetScheduleReturn(t, o) /\ NoApp
       \/ \E o \in RemoteOutcomes : GetCachedGameIdsReturn(t, o) /\ NoApp
       \/ \E o \in RemoteOutcomes : GetCacheStatsReturn(t, o) /\ NoApp

\* two clients call concurrently, on one game id
NextLive ==
    \/ Tick /\ NoApp
    \/ \E t \in Tasks : EntryCalls(t, HistoryIds)
    \/ \E t \in Tasks : ListingCalls(t)

\* a page load with two calls left to make
InitLive ==
    /\ supabase \in BOOLEAN
    /\ isCloudDisabled = FALSE
    /\ localStorage = [k \in LocalKeys(GameIds, Weeks) |-> NoItem]
    /\ quota = QuotaUnits
    /\ matchups = [g \in GameIds |-> NoRow]
    /\ schedules = [w \in Weeks |-> NoRow]
    /\ now = 1
    /\ inflight = [t \in Tasks |-> Idle]
    /\ ret = NoReturn
    /\ lastSave = NoSave
    /\ AppNotMounted
    /\ history = FALSE
    /\ calls = MaxCalls - 2

\* concurrent calls, every remote request of which eventually settles
SpecLive ==
    /\ InitLive
    /\ [][NextLive]_vars
    /\ \A t \in Tasks : WF_inflight(Returns(t))

\* the App component from its mounting on: initApp, and one selected game
SpecApp == InitMounted /\ [][NextApp]_vars

\* the App component after initApp has ended, over a localStorage and a
\* remote table that may hold an analysis of g1, with four calls left to
\* make; no game is selected yet
InitSelected ==
    /\ supabase \in BOOLEAN
    /\ isCloudDisabled \in BOOLEAN
    /\ ~supabase => isCloudDisabled
    /\ quota = QuotaUnits
    /\ \E held \in BOOLEAN :
          localStorage = [k \in LocalKeys(GameIds, Weeks) |->
              IF held /\ k = KeyOf(CACHE_PREFIX, "g1")
              THEN JSON_stringify([timestamp |-> 1, payload |-> PayloadA])
              ELSE NoItem]
    /\ matchups = [g \in GameIds |-> NoRow]
    /\ schedules = [w \in Weeks |-> NoRow]
    /\ now = 1
    /\ inflight = [t \in Tasks |-> Idle]
    /\ ret = NoReturn
    /\ lastSave = NoSave
    /\ history = FALSE
    /\ calls = MaxCalls - 4
    /\ cloudStatus = IF isCloudActive THEN "connected" ELSE "offline"
    /\ cachedGameIds = Range(LocalIds(localStorage))
    /\ handler = [t \in Tasks |-> NoHandler]
    /\ NothingShown

\* the user selects games: each task runs one handleSelectGame
NextSelect ==
    \E t \in Tasks :
        \/ \E id \in GameIds : HandleSelectGame(t, id)
        \/ \E o \in RemoteOutcomes : HandleSelectGameLookedUp(t, o)
        \/ \E r \in RosterOutcomes : HandleSelectGameRosters(t, r)
        \/ \E a \in AnalysisOutcomes : HandleSelectGameAnalysis(t, a)
        \/ \E fault \in StorageFaults : HandleSelectGameSaveCall(t, fault)
        \/ \E o \in RemoteOutcomes, fault \in StorageFaults :
             HandleSelectGameSaveReturn(t, o, fault)

\* two selections of the mounted App
SpecSelect == InitSelected /\ [][NextSelect]_vars

---------------------------------------------------------------------------
(* Properties *)

SaveOps == {"saveMatchup", "saveSchedule"}
GetOps == {"getMatchup", "getSchedule"}

\* the remote request of the returning call failed with an exception or with
\* an error whose message matches one of the two patterns
FailedClassified(r) ==
    \/ r.remote.kind = "throw"
    \/ /\ r.remote.kind = "error"
       /\ \E i \in 1..Len(r.remote.error.message) :
             r.remote.error.message[i] \in {"permission", "connection"}

\* C2: when the remote request of a save, a get or getCachedGameIds fails
\* with a permission or connectivity error (or an exception), isCloudActive()
\* is false once the call has returned; and while the flag is set no call
\* other than verifyConnection() issues a remote request, and the flag is
\* not cleared by a step that is not the return of verifyConnection().
C2_CircuitOpensOnClassifiedFailure ==
    /\ [](ret.op \in SaveOps \cup GetOps \cup {"getCachedGameIds"}
             /\ FailedClassified(ret)
          => ~isCloudActive /\ isCloudDisabled)
    /\ [][isCloudDisabled =>
            /\ \A t \in Tasks :
                  inflight'[t] # inflight[t] /\ inflight'[t] # Idle
                      => inflight'[t].op = "verifyConnection"
            /\ (~isCloudDisabled' => ret'.op = "verifyConnection")]_vars

\* a save whose upsert reported a permission error has returned, and the
\* circuit is open
C2_Witness ==
    /\ ret.op = "saveMatchup"
    /\ ret.remote.kind = "error"
    /\ Includes(ret.remote.error.message, "permission")
    /\ ~ret.wasDisabled
    /\ isCloudDisabled

\* C3: the circuit flag changes from set to cleared only in the step in
\* which a verifyConnection() call returns true after its probe succeeded;
\* no step of a save, a get, getCachedGameIds or getCacheStats clears it.
C3_OnlyVerifyConnectionCloses ==
    [][isCloudDisabled /\ ~isCloudDisabled' =>
          /\ ret'.op = "verifyConnection"
          /\ ret'.remote.kind = "data"
          /\ ret'.value = Found(TRUE)]_vars

\* verifyConnection() found the circuit open and closed it
C3_Witness ==
    /\ ret.op = "verifyConnection"
    /\ ret.wasDisabled
    /\ ~isCloudDisabled

\* C10: every saveMatchup and saveSchedule call resolves, whatever the
\* remote request and the local write did.
C10_SaveNeverRejects ==
    ret.op \in SaveOps => ret.value = Resolved

\* a save resolved although its remote request failed and its local write
\* met a quota error
C10_Witness ==
    /\ ret.op = "saveMatchup"
    /\ ret.remote.kind \in {"error", "throw"}
    /\ IsQuotaError(ret.local.error)
    /\ ret.value = Resolved

\* 24 hours for the keys of matchup entries, 6 hours for schedule entries
TTL(key) ==
    IF key[2] = "cache" THEN 24 * 3600000 ELSE 6 * 3600000

\* an entry captured at `timestamp` is valid at the present instant
Valid(key, timestamp) == now - timestamp < TTL(key)

\* the entry the remote tier handed to the returning get, if any
RemoteEntry(r) ==
    IF r.remote.kind # "data" THEN Missing
    ELSE IF r.op = "getMatchup"
    THEN Found([timestamp |-> r.remote.data.timestamp,
                payload |-> [data |-> r.remote.data.data,
                             sources |-> r.remote.data.sources,
                             rawText |-> r.remote.data.raw_text]])
    ELSE Found([timestamp |-> r.remote.data.timestamp,
                payload |-> r.remote.data.games])

\* the entry localStorage holds under a key, if any
LocalEntry(store, key) ==
    IF store[key] = NoItem \/ store[key][1] # "json" THEN Missing
    ELSE IF "payload" \in DOMAIN store[key][2]
    THEN Found([timestamp |-> store[key][2].timestamp,
                payload |-> store[key][2].payload])
    ELSE Found([timestamp |-> store[key][2].timestamp,
                payload |-> store[key][2].games])

\* C4: in the step in which a get returns, with the entry the remote tier
\* handed to it (if any) and the entry localStorage held under the key (if
\* any): when the remote entry is valid (now - timestamp < TTL) the get
\* returns its payload; otherwise, when the local entry is valid, the get
\* returns the local payload; otherwise (each entry that exists has
\* now - timestamp >= TTL) it returns null.  TTL is 24 hours for matchups and
\* 6 hours for schedules.
C4_Expiry ==
    [][ret'.op \in GetOps =>
         LET key == ret'.key
             remote == RemoteEntry(ret')
             local == LocalEntry(localStorage, key)
         IN  IF remote.found /\ Valid(key, remote.value.timestamp)
             THEN ret'.value = Found(remote.value.payload)
             ELSE IF local.found /\ Valid(key, local.value.timestamp)
             THEN ret'.value = Found(local.value.payload)
             ELSE ret'.value = Missing]_vars

\* getSchedule returned null for a row whose age is exactly 6 hours
C4_Witness ==
    /\ ret.op = "getSchedule"
    /\ ret.remote.kind = "data"
    /\ now - ret.remote.data.timestamp = 6 * 3600000
    /\ ret.value = Missing

\* the returning call is a get of the key of the last completed save, and
\* the entry of that save has not reached its expiry
GetAfterSave ==
    /\ ret.op \in GetOps
    /\ lastSave.saved
    /\ lastSave.key = ret.key
    /\ now - lastSave.timestamp < TTL(ret.key)

\* C1: a get of key k that follows a completed save of k before the expiry,
\* with no other save and no change of the circuit flag in between, returns
\* the saved value, whatever the remote request of the save did.
C1_RoundTrip ==
    GetAfterSave /\ lastSave.steady => ret.value = Found(lastSave.value)

\* C5: a get of key k that follows two completed saves of k, before the
\* expiry of the second, returns the value of the second save.
C5_LastSaveWins ==
    GetAfterSave /\ lastSave.second => ret.value = Found(lastSave.value)

\* the save and the get were both called with the circuit flag set, and the
\* flag did not change in between
BothWhileOpen ==
    /\ GetAfterSave
    /\ lastSave.open
    /\ lastSave.steady
    /\ ret.wasDisabled

\* C6 as stated: with the circuit open, a save followed by a get of the same
\* key before the expiry returns the saved value, and neither call makes a
\* remote request.
C6_FallbackAsStated ==
    BothWhileOpen =>
        /\ ret.value = Found(lastSave.value)
        /\ ret.remote = NoRequest
        /\ lastSave.remote = "none"

\* C6: with the circuit open, neither a save nor the get of the same key
\* that follows it makes a remote request, and the get returns the saved
\* value when the local write of the save left the entry in localStorage
\* (it is dropped when setItem still throws after the eviction, or throws an
\* exception that is not a quota error).
C6_FallbackCorrectness ==
    BothWhileOpen =>
        /\ ret.remote = NoRequest
        /\ lastSave.remote = "none"
        /\ (lastSave.stored => ret.value = Found(lastSave.value))

\* with the circuit open, a client that is configured saved a matchup and
\* read it back from localStorage
C6_Witness ==
    /\ BothWhileOpen
    /\ supabase
    /\ ret.op = "getMatchup"
    /\ lastSave.stored
    /\ ret.value = Found(lastSave.value)

\* C7: a getMatchup called with the circuit open, for the key of a matchup
\* whose save was called with the circuit closed and had its upsert succeed,
\* returns the saved value before the expiry.
C7_SurvivesOutage ==
    /\ GetAfterSave
    /\ ret.op = "getMatchup"
    /\ ~lastSave.open
    /\ lastSave.remote = "data"
    /\ ret.wasDisabled
    => ret.value = Found(lastSave.value)

\* the game ids of the keys localStorage holds under the matchup prefix
LocalGameIds ==
    {k[4] : k \in {j \in DOMAIN localStorage :
                      localStorage[j] # NoItem /\ j[1] = "eric_ai_"
                          /\ j[2] = "cache" /\ j[3] = "_v1_"}}

\* the ids of the rows of the remote table
RemoteGameIds == {id \in DOMAIN matchups : matchups[id] # NoRow}

\* C9 as stated: getCachedGameIds() returns, each once, the ids held locally
\* together with, when the circuit is closed, the ids of the remote table.
C9_UnionAsStated ==
    [][ret'.op = "getCachedGameIds" =>
         /\ Range(ret'.value.value) =
                LocalGameIds \cup (IF ret'.wasDisabled THEN {} ELSE RemoteGameIds)
         /\ Len(ret'.value.value) = Cardinality(Range(ret'.value.value))]_vars

\* C9: getCachedGameIds() returns, each once and whether or not the entries
\* are expired, the ids held locally together with the ids of the remote
\* table when its request for them succeeded; it makes that request exactly
\* when the client is configured and the circuit is closed, and returns the
\* local ids alone when the request fails or is not made.
C9_Union ==
    [][ret'.op = "getCachedGameIds" =>
         /\ Range(ret'.value.value) =
                LocalGameIds \cup (IF ret'.remote.kind = "data"
                                   THEN RemoteGameIds ELSE {})
         /\ Len(ret'.value.value) = Cardinality(Range(ret'.value.value))
         /\ (ret'.remote # NoRequest <=> supabase /\ ~ret'.wasDisabled)]_vars

\* getCachedGameIds() returned two ids: g1, held only locally by an entry
\* that has expired, and g2, held only by the remote table
C9_Witness ==
    /\ ret.op = "getCachedGameIds"
    /\ ret.remote.kind = "data"
    /\ Range(ret.value.value) = {"g1", "g2"}
    /\ Len(ret.value.value) = 2
    /\ matchups["g1"] = NoRow /\ matchups["g2"] # NoRow
    /\ localStorage[<<"eric_ai_", "cache", "_v1_", "g2">>] = NoItem
    /\ LocalEntry(localStorage, <<"eric_ai_", "cache", "_v1_", "g1">>).found
    /\ ~Valid(<<"eric_ai_", "cache", "_v1_", "g1">>,
              LocalEntry(localStorage, <<"eric_ai_", "cache", "_v1_", "g1">>).value.timestamp)

\* the keys of the matchup entries localStorage holds
HeldCacheKeys ==
    {k \in DOMAIN localStorage : localStorage[k] # NoItem /\ k[2] = "cache"}

\* the timestamp of the matchup entry under a key
HeldTimestamp(k) == localStorage[k][2].timestamp

\* the matchup entries are at least five, with distinct timestamps
FiveDistinct ==
    /\ Cardinality(HeldCacheKeys) >= 5
    /\ \A a, b \in HeldCacheKeys : a # b => HeldTimestamp(a) # HeldTimestamp(b)

\* the keys of the five matchup entries with the smallest timestamps
FiveOldest ==
    {k \in HeldCacheKeys :
        Cardinality({j \in HeldCacheKeys : HeldTimestamp(j) < HeldTimestamp(k)}) < 5}

\* localStorage without the five oldest matchup entries
AfterEviction ==
    [k \in DOMAIN localStorage |->
        IF k \in FiveOldest THEN NoItem ELSE localStorage[k]]

\* the step is a saveMatchup whose first setItem threw a quota error, over
\* at least five matchup entries with distinct timestamps
QuotaErrorOverFive ==
    /\ ret'.op = "saveMatchup"
    /\ ret'.local.error = "QuotaExceededError"
    /\ FiveDistinct

\* C8 as stated: the eviction removes exactly the five entries with the
\* smallest timestamps, and the retried write stores the new entry.
C8_EvictionAsStated ==
    [][QuotaErrorOverFive =>
         /\ ret'.local.pruned = FiveOldest
         /\ localStorage' = [AfterEviction EXCEPT ![ret'.key] = ret'.local.text]]_vars

\* C8: the eviction removes exactly the five entries with the smallest
\* timestamps and no others; the write is retried once, and stores the new
\* entry when it fits the space left after the eviction; when it does not,
\* the new entry is dropped and the five entries stay removed.
C8_EvictionSelectsOldest ==
    [][QuotaErrorOverFive =>
         /\ ret'.local.pruned = FiveOldest
         /\ Cardinality(FiveOldest) = 5
         /\ ret'.local.attempts = 2
         /\ LET written == [AfterEviction EXCEPT ![ret'.key] = ret'.local.text]
            IN localStorage' = IF Used(written) <= quota THEN written
                               ELSE AfterEviction]_vars

\* a saveMatchup met a quota error over six entries, evicted five of them,
\* kept the sixth, and stored the new entry
C8_Witness ==
    /\ ret.op = "saveMatchup"
    /\ ret.local.error = "QuotaExceededError"
    /\ Cardinality(ret.local.pruned) = 5
    /\ localStorage[ret.key] = ret.local.text
    /\ \E k \in DOMAIN localStorage :
          /\ k # ret.key
          /\ k[2] = "cache"
          /\ localStorage[k] # NoItem
          /\ \A j \in ret.local.pruned : j # k

\* the methods that read
ReadOps == GetOps \cup {"getCachedGameIds", "getCacheStats", "verifyConnection"}

\* C11: getMatchup, getSchedule, getCachedGameIds, getCacheStats and
\* verifyConnection never reject: each resolves with a value (a payload or
\* null, an id list, a stats object, a boolean), whatever the remote
\* request did.
C11_RemoteFailuresAbsorbed ==
    ret.op \in ReadOps =>
        /\ ret.value # Rejected
        /\ "found" \in DOMAIN ret.value
        /\ (ret.op \notin GetOps => ret.value.found)
        /\ (ret.op = "verifyConnection" => ret.value.value \in BOOLEAN)

\* getCachedGameIds resolved with an id list although its request threw
C11_Witness ==
    /\ ret.op = "getCachedGameIds"
    /\ ret.remote.kind = "throw"
    /\ ret.value.found

\* C12: when verifyConnection() returns, the circuit is closed and the value
\* is true if its probe succeeded; the circuit is open and the value is false
\* if the probe reported an error or threw, or if the client is not
\* configured (no probe is then made).
C12_VerifyConnection ==
    ret.op = "verifyConnection" =>
        /\ (ret.remote = NoRequest <=> ~supabase)
        /\ IF ret.remote.kind = "data"
           THEN ~isCloudDisabled /\ ret.value = Found(TRUE)
           ELSE isCloudDisabled /\ ret.value = Found(FALSE)

\* verifyConnection() found the circuit closed, its probe reported an error,
\* and it returned false with the circuit open
C12_Witness ==
    /\ ret.op = "verifyConnection"
    /\ ret.remote.kind = "error"
    /\ ~ret.wasDisabled
    /\ isCloudDisabled
    /\ ret.value = Found(FALSE)

\* what a get that reads only localStorage returns for a key
LocalAnswer(store, key) ==
    IF LocalEntry(store, key).found
          /\ Valid(key, LocalEntry(store, key).value.timestamp)
    THEN Found(LocalEntry(store, key).value.payload)
    ELSE Missing

\* C13: a get called with the client configured and the circuit closed
\* issues its remote query and suspends without touching localStorage; a get
\* returns in the step in which it is called, without a remote query and
\* with what localStorage holds, only when the circuit is open or the client
\* is not configured; and a get whose query brought a valid row returns the
\* payload of that row and does not touch localStorage.
C13_ReadOrdering ==
    [][/\ \A t \in Tasks :
            inflight'[t] # inflight[t] /\ inflight'[t] # Idle
                /\ inflight'[t].op \in GetOps
            => supabase /\ ~isCloudDisabled /\ localStorage' = localStorage
       /\ (ret'.op \in GetOps /\ calls' = calls + 1
            => /\ ~(supabase /\ ~isCloudDisabled)
               /\ ret'.remote = NoRequest
               /\ ret'.value = LocalAnswer(localStorage, ret'.key))
       /\ (ret'.op \in GetOps /\ calls' = calls
            => ret'.remote # NoRequest)
       /\ (ret'.op \in GetOps /\ RemoteEntry(ret').found
            => IF Valid(ret'.key, RemoteEntry(ret').value.timestamp)
               THEN /\ ret'.value = Found(RemoteEntry(ret').value.payload)
                    /\ localStorage' = localStorage
               ELSE ret'.value = LocalAnswer(localStorage, ret'.key))]_vars

\* getMatchup returned the payload of the valid remote row while
\* localStorage held another payload under the key
C13_Witness ==
    /\ ret.op = "getMatchup"
    /\ RemoteEntry(ret).found
    /\ LocalEntry(localStorage, ret.key).found
    /\ LocalEntry(localStorage, ret.key).value.payload
           # RemoteEntry(ret).value.payload
    /\ ret.value = Found(RemoteEntry(ret).value.payload)

\* the message of a failed request matches 'permission' or 'connection'
MatchesPattern(answer) ==
    \E i \in 1..Len(answer.error.message) :
        answer.error.message[i] \in {"permission", "connection"}

\* the save call of task t returns in this step, after its upsert failed
SaveReturnsFailed(t) ==
    /\ inflight[t] # Idle
    /\ inflight[t].op \in SaveOps
    /\ inflight'[t] = Idle
    /\ ret'.remote.kind \in {"error", "throw"}

\* the localStorage key of a suspended save call
KeyOfSave(call) ==
    IF call.op = "saveMatchup"
    THEN <<"eric_ai_", "cache", "_v1_", call.id>>
    ELSE <<"eric_ai_", "schedule", "_v1_", call.cache.week>>

\* the string a suspended save call stores
TextOfSave(call) ==
    IF call.op = "saveMatchup"
    THEN <<"json", [timestamp |-> call.item.timestamp, payload |-> call.item.payload]>>
    ELSE <<"json", [week |-> call.cache.week, games |-> call.cache.games,
                    timestamp |-> call.cache.timestamp]>>

\* the returning save made its local write with the entry of the call, and
\* the entry is in localStorage when the first setItem did not throw
LocalWriteMade(t) ==
    /\ ret'.key = KeyOfSave(inflight[t])
    /\ ret'.local.attempts >= 1
    /\ ret'.local.text = TextOfSave(inflight[t])
    /\ (ret'.local.error = "none" =>
           localStorage' = [localStorage EXCEPT ![ret'.key] = ret'.local.text])
    /\ (localStorage'[ret'.key] # ret'.local.text => ret'.local.error # "none")

\* C14 as stated: a save whose upsert failed with a classified failure
\* returns with the circuit open and the entry in localStorage under the
\* key of its namespace.
C14_ClassifiedAsStated ==
    [][\A t \in Tasks :
          SaveReturnsFailed(t) /\ MatchesPattern(ret'.remote)
          => /\ isCloudDisabled'
             /\ localStorage'[KeyOfSave(inflight[t])] = TextOfSave(inflight[t])]_vars

\* C14: a save whose upsert failed with a classified failure returns with
\* the circuit open, after a local write of the entry under the key of its
\* namespace; the entry is in localStorage unless that write threw.
C14_ClassifiedSaveFailure ==
    [][\A t \in Tasks :
          SaveReturnsFailed(t) /\ MatchesPattern(ret'.remote)
          => isCloudDisabled' /\ LocalWriteMade(t)]_vars

\* saveMatchup returned after a 'connection' error result, with the circuit
\* open and the entry in localStorage
C14_Witness ==
    /\ ret.op = "saveMatchup"
    /\ ret.remote.kind = "error"
    /\ Includes(ret.remote.error.message, "connection")
    /\ isCloudDisabled
    /\ ret.local.text # NoItem
    /\ localStorage[ret.key] = ret.local.text

AnsweredNotFound(r) ==
    /\ r.op \in GetOps
    /\ r.remote.kind = "error"
    /\ r.remote.error.code = "PGRST116"

\* C16: a get whose remote query is answered 'no row' (PGRST116) leaves the
\* circuit flag as it was, closed, and returns what the local fallback
\* gives for the key.
C16_NotFoundKeepsCircuit ==
    [][AnsweredNotFound(ret') =>
          /\ isCloudDisabled' = isCloudDisabled
          /\ ~isCloudDisabled'
          /\ ret'.value = LocalAnswer(localStorage, ret'.key)]_vars

\* getMatchup was answered 'no row' by the remote tier and returned the
\* entry localStorage holds, with the circuit still closed
C16_Witness ==
    /\ AnsweredNotFound(ret)
    /\ ret.op = "getMatchup"
    /\ ~ret.wasDisabled
    /\ ~isCloudDisabled
    /\ ret.value.found

\* the remote query of the returning get brought a row that has expired
RemoteExpired(r) ==
    /\ r.op \in GetOps
    /\ RemoteEntry(r).found
    /\ ~Valid(r.key, RemoteEntry(r).value.timestamp)

\* C17: a get whose remote query brought an expired row does not return the
\* payload of that row: it returns the payload of the entry localStorage
\* held under the key when that entry is valid and absent otherwise, and
\* the circuit flag is as it was, closed.
C17_ExpiredRemoteRow ==
    [][RemoteExpired(ret') =>
          /\ ret'.value = LocalAnswer(localStorage, ret'.key)
          /\ isCloudDisabled' = isCloudDisabled
          /\ ~isCloudDisabled']_vars

\* getMatchup was handed an expired row and returned the different payload
\* of the valid entry localStorage holds
C17_Witness ==
    /\ RemoteExpired(ret)
    /\ ret.op = "getMatchup"
    /\ ret.value.found
    /\ ret.value = LocalAnswer(localStorage, ret.key)
    /\ ret.value.value # RemoteEntry(ret).value.payload
    /\ ~isCloudDisabled

\* the returning get went on to its local fallback
ReachedLocal(r) ==
    /\ r.op \in GetOps
    /\ "read" \in DOMAIN r.local

\* C18: a get that reaches its local fallback and finds an expired entry
\* under the key returns absent and the key holds nothing afterwards, the
\* other keys being untouched; one that finds a valid entry returns its
\* payload and leaves localStorage as it was.
C18_LazyLocalExpiry ==
    [][ReachedLocal(ret') =>
          LET e == LocalEntry(localStorage, ret'.key) IN
          /\ ret'.local.read = localStorage[ret'.key]
          /\ (e.found /\ ~Valid(ret'.key, e.value.timestamp) =>
                 /\ ret'.value = Missing
                 /\ localStorage' = [localStorage EXCEPT ![ret'.key] = NoItem])
          /\ (e.found /\ Valid(ret'.key, e.value.timestamp) =>
                 /\ ret'.value = Found(e.value.payload)
                 /\ localStorage' = localStorage)]_vars

\* getSchedule read an expired entry from localStorage, returned absent and
\* the key holds nothing
C18_Witness ==
    /\ ReachedLocal(ret)
    /\ ret.op = "getSchedule"
    /\ ret.local.read # NoItem
    /\ ret.local.removed
    /\ ret.value = Missing
    /\ localStorage[ret.key] = NoItem

\* C19: a save that makes its local write, in either namespace, calls
\* setItem once when the first call does not throw a quota error; when it
\* does, the eviction policy runs on localStorage as the save found it and
\* setItem is called exactly once more; setItem is never called more than
\* twice; the key holds the new entry or what it held before (less what was
\* evicted); and the save resolves.
C19_QuotaHandling ==
    [][ret'.op \in SaveOps /\ ret'.local.attempts >= 1 =>
          /\ ret'.local.attempts <= 2
          /\ (IsQuotaError(ret'.local.error) =>
                 /\ ret'.local.attempts = 2
                 /\ ret'.local.pruned \in PruneChoices(localStorage)
                 /\ LET evicted == pruneCache(localStorage, ret'.local.pruned) IN
                    localStorage' \in
                        {evicted, [evicted EXCEPT ![ret'.key] = ret'.local.text]})
          /\ (~IsQuotaError(ret'.local.error) => ret'.local.attempts = 1)
          /\ ret'.value = Resolved]_vars

\* the call that returned in the last step is a save, a get or
\* getCachedGameIds whose remote request failed with a classified error
ClassifiedFailure(r) ==
    /\ r.op \in SaveOps \cup GetOps \cup {"getCachedGameIds"}
    /\ FailedClassified(r)

\* C20: there is one circuit flag for all keys and both namespaces: once a
\* save, a get or getCachedGameIds has returned from a classified remote
\* failure, whatever its key, isCloudActive() is false; the call made next,
\* on any key of either namespace, issues no remote request and returns
\* within the step from localStorage; and as long as the flag is set every
\* call other than verifyConnection(), on any key, returns within the step
\* in which it is made, without a remote request, and leaves the flag set.
C20_OneSharedCircuit ==
    /\ [](ClassifiedFailure(ret) => ~isCloudActive)
    /\ [][ClassifiedFailure(ret) =>
            /\ \A t \in Tasks :
                  inflight'[t] # inflight[t] /\ inflight'[t] # Idle
                      => inflight'[t].op = "verifyConnection"
            /\ (ret'.op \in SaveOps \cup GetOps \cup {"getCachedGameIds", "getCacheStats"}
                  => /\ ret'.remote = NoRequest
                     /\ ret'.wasDisabled
                     /\ ~isCloudActive')]_vars
    /\ [][isCloudDisabled /\ calls' = calls + 1
            => IF inflight' # inflight
               THEN \A t \in Tasks :
                       inflight'[t] # inflight[t]
                           => inflight'[t].op = "verifyConnection"
               ELSE /\ ret'.op # "none"
                    /\ ret'.remote = NoRequest
                    /\ isCloudDisabled']_vars

\* the second call of the run, a getSchedule with the client configured,
\* made no remote request because the circuit was open: the first call was
\* the saveMatchup whose failed upsert opened it and left its entry in
\* localStorage
C20_Witness ==
    /\ calls = 2
    /\ supabase
    /\ ret.op = "getSchedule"
    /\ ret.remote = NoRequest
    /\ ret.wasDisabled
    /\ isCloudDisabled
    /\ \E id \in GameIds : localStorage[KeyOf(CACHE_PREFIX, id)] # NoItem

\* the returning call is a saveMatchup whose upsert succeeded
UpsertSucceeded(r) ==
    /\ r.op = "saveMatchup"
    /\ r.remote.kind = "data"

\* C21: a saveMatchup whose upsert succeeded returns without a call of
\* setItem or removeItem: localStorage is after the call what it was
\* before, and the save resolves.
C21_SuccessLeavesLocalAlone ==
    [][UpsertSucceeded(ret') =>
          /\ localStorage' = localStorage
          /\ ret'.local = NoWrite
          /\ ret'.value = Resolved]_vars

\* a saveMatchup whose upsert succeeded has returned, and localStorage still
\* holds under its key an older entry with another payload
C21_Witness ==
    /\ UpsertSucceeded(ret)
    /\ localStorage[ret.key] # NoItem
    /\ \E id \in GameIds :
          /\ ret.key = KeyOf(CACHE_PREFIX, id)
          /\ matchups[id] # NoRow
          /\ localStorage[ret.key][2].payload.data # matchups[id].data

\* C22 as stated: every saveSchedule calls setItem, and a getSchedule of the
\* same week made next with the circuit open returns the games of the save
\* unless setItem threw a quota error.
C22_WriteThroughAsStated ==
    /\ [](ret.op = "saveSchedule" => ret.local.attempts >= 1)
    /\ [][/\ ret.op = "saveSchedule"
           /\ ~IsQuotaError(ret.local.error)
           /\ ret'.op = "getSchedule"
           /\ ret'.key = ret.key
           /\ ret'.wasDisabled
           => ret'.value = Found(ret.local.text[2].games)]_vars

\* C22: every saveSchedule, whatever the circuit flag and whatever its
\* upsert did, calls setItem once with the entry of the call, and the entry
\* is in localStorage when that setItem did not throw; a getSchedule of the
\* same week made before the expiry with the circuit open, no other save
\* in between, makes no remote request and returns the games of the save
\* when the save left its entry in localStorage.
C22_WriteThrough ==
    /\ (ret.op = "saveSchedule" =>
           /\ lastSave.key = ret.key
           /\ ret.local.attempts = 1
           /\ ret.local.text = JSON_stringify([week |-> ret.key[4],
                                               games |-> lastSave.value,
                                               timestamp |-> lastSave.timestamp])
           /\ (ret.local.error = "none" =>
                  lastSave.stored /\ localStorage[ret.key] = ret.local.text))
    /\ (GetAfterSave /\ ret.op = "getSchedule" /\ ret.wasDisabled
           /\ lastSave.stored
         => /\ ret.remote = NoRequest
            /\ ret.value = Found(lastSave.value))

\* a saveSchedule called with the circuit closed had its upsert succeed;
\* the circuit opened afterwards and getSchedule returned the games of the
\* save from localStorage
C22_Witness ==
    /\ GetAfterSave
    /\ ret.op = "getSchedule"
    /\ supabase
    /\ ret.wasDisabled
    /\ ~lastSave.open
    /\ lastSave.remote = "data"
    /\ ret.remote = NoRequest
    /\ ret.value = Found(lastSave.value)

\* the two exception names by which a browser signals that the quota is
\* exceeded
QuotaNames == {"QuotaExceededError", "NS_ERROR_DOM_QUOTA_REACHED"}

\* the keys whose unexpired entry the step removes from localStorage
RemovedUnexpired ==
    {k \in DOMAIN localStorage :
        /\ localStorage[k] # NoItem
        /\ localStorage'[k] = NoItem
        /\ LocalEntry(localStorage, k).found
        /\ Valid(k, LocalEntry(localStorage, k).value.timestamp)}

\* C23: a step removes an unexpired entry from localStorage only when it is
\* the return of a save whose first setItem threw a quota error, and the
\* entry is then one of those the eviction selected; a save whose setItem
\* succeeded or threw another exception evicts nothing, and no get,
\* getCachedGameIds, getCacheStats or verifyConnection does.
C23_EvictionOnlyOnQuotaError ==
    /\ [][\A k \in RemovedUnexpired :
              /\ ret'.op \in SaveOps
              /\ ret'.local.error \in QuotaNames
              /\ k \in ret'.local.pruned]_vars
    /\ [](ret.op \in SaveOps /\ ret.local.error \notin QuotaNames
            => ret.local.pruned = {})

\* at the first instant, when no entry can have expired, a save whose
\* setItem threw a quota error has evicted an entry
C23_Witness ==
    /\ now = 1
    /\ ret.op \in SaveOps
    /\ ret.local.error \in QuotaNames
    /\ \E k \in ret.local.pruned : k # ret.key /\ localStorage[k] = NoItem

\* the matchup keys whose stored string cannot be parsed or has no timestamp
RankedZero(store) ==
    {k \in DOMAIN store :
        /\ store[k] # NoItem
        /\ k[2] = "cache"
        /\ (store[k][1] # "json" \/ "timestamp" \notin DOMAIN store[k][2])}

\* the matchup keys holding a parsable entry with a positive timestamp
RankedPositive(store) ==
    {k \in DOMAIN store :
        /\ store[k] # NoItem
        /\ k[2] = "cache"
        /\ store[k][1] = "json"
        /\ "timestamp" \in DOMAIN store[k][2]
        /\ store[k][2].timestamp > 0}

\* C24: when a saveMatchup evicts, the strings that cannot be parsed and
\* the entries without a timestamp go first: an entry with a positive
\* timestamp is evicted only when all of those are, and when there are at
\* most five of them every one of them is evicted.
C24_CorruptEvictedFirst ==
    [][ret'.op = "saveMatchup" /\ ret'.local.attempts = 2 =>
          LET zero == RankedZero(localStorage)
              positive == RankedPositive(localStorage)
          IN /\ (positive \cap ret'.local.pruned # {} => zero \subseteq ret'.local.pruned)
             /\ (Cardinality(zero) <= 5 =>
                    /\ zero \subseteq ret'.local.pruned
                    /\ \A k \in zero \ {ret'.key} : localStorage'[k] = NoItem)]_vars

\* over a localStorage that held strings that cannot be parsed or entries
\* without a timestamp, an eviction removed five entries, all of those among
\* them, and kept an entry with a positive timestamp
C24_Witness ==
    /\ ret.op = "saveMatchup"
    /\ ret.local.attempts = 2
    /\ Cardinality(ret.local.pruned) = 5
    /\ \A k \in ret.local.pruned \ {ret.key} : localStorage[k] = NoItem
    /\ RankedZero(localStorage) \ {ret.key} = {}
    /\ RankedPositive(localStorage) \ {ret.key} # {}

\* the returning call is a getCachedGameIds whose enumeration of the remote
\* table failed
EnumerationFailed(r) ==
    /\ r.op = "getCachedGameIds"
    /\ r.remote.kind \in {"error", "throw"}

C26_NotConfigured ==
    ~supabase =>
        /\ ~isCloudActive
        /\ \A t \in Tasks : inflight[t] = Idle
        /\ (ret.op # "none" => ret.remote = NoRequest)
        /\ (ret.op = "verifyConnection" => ret.value = Found(FALSE))

\* without a configured client, verifyConnection() found the circuit flag
\* still clear and returned false without a request
C26_Witness ==
    /\ ~supabase
    /\ ret.op = "verifyConnection"
    /\ ~ret.wasDisabled
    /\ ret.remote = NoRequest
    /\ ret.value = Found(FALSE)
    /\ calls > 1

\* C27: a remote request is issued only by the step in which a method is
\* called, one per call; the step in which the request settles, whatever
\* its outcome, ends the call, which returns with that one answer and goes
\* back to idle; and the passing of time issues no request and returns
\* nothing.
C27_NoSilentRetry ==
    [][/\ \A t \in Tasks :
            /\ (inflight'[t] # inflight[t] /\ inflight'[t] # Idle
                   => inflight[t] = Idle /\ calls' = calls + 1)
            /\ (inflight'[t] # inflight[t] /\ inflight[t] # Idle
                   => /\ inflight'[t] = Idle
                      /\ calls' = calls
                      /\ ret'.op = inflight[t].op
                      /\ ret'.remote # NoRequest)
       /\ (ret'.op # "none" /\ calls' = calls
            => \E t \in Tasks : inflight[t] # Idle /\ inflight'[t] = Idle)
       /\ (ret'.op # "none" /\ calls' = calls + 1
            => inflight' = inflight /\ ret'.remote = NoRequest)
       /\ (now' # now => inflight' = inflight /\ ret' = NoReturn)]_vars

\* the request of a getSchedule threw, the call returned, and no request is
\* in flight
C27_Witness ==
    /\ ret.op = "getSchedule"
    /\ ret.remote.kind = "throw"
    /\ \A t \in Tasks : inflight[t] = Idle
    /\ isCloudDisabled

\* the keys of the schedule entries localStorage holds
HeldScheduleKeys ==
    {k \in DOMAIN localStorage : localStorage[k] # NoItem /\ k[2] = "schedule"}

\* C28: getCacheStats() never rejects; the isCloudConnected it reports is
\* true exactly when the client is configured and the circuit flag is clear
\* as the call returns; and when it made no remote request (circuit open or
\* no client) or its request failed, the counts are those of localStorage
\* alone: the number of matchup entries, the number of schedule entries and
\* the length of the matchup strings.
C28_StatsDegrade ==
    [][ret'.op = "getCacheStats" =>
          /\ ret'.value # Rejected
          /\ ret'.value.found
          /\ ret'.value.value.isCloudConnected = (supabase /\ ~isCloudDisabled')
          /\ (ret'.remote = NoRequest <=> ~(supabase /\ ~isCloudDisabled))
          /\ (ret'.remote = NoRequest \/ ret'.remote.kind \in {"error", "throw"} =>
                 /\ ret'.value.value.totalGames = Cardinality(HeldCacheKeys)
                 /\ ret'.value.value.totalSchedules = Cardinality(HeldScheduleKeys)
                 /\ ret'.value.value.localStorageSize =
                        SumLength(localStorage, HeldCacheKeys))]_vars

\* the count request of getCacheStats() threw while the remote table held
\* two rows and localStorage nothing: the call reports no game, and reports
\* the cloud as connected, the circuit being still closed
C28_Witness ==
    /\ ret.op = "getCacheStats"
    /\ ret.remote.kind = "throw"
    /\ ret.value.value.isCloudConnected
    /\ ~isCloudDisabled
    /\ ret.value.value.totalGames = 0
    /\ Cardinality({id \in GameIds : matchups[id] # NoRow}) = 2

\* C29: whenever the indicator shows 'Cloud Connected' (cloudStatus is
\* 'connected') the circuit flag is clear, and once the startup probe has
\* set the indicator, in the state a call that found the flag clear leaves
\* with the flag set, the indicator shows 'Local Storage Mode' (cloudStatus
\* is 'offline').
C29_IndicatorAgrees ==
    /\ (cloudStatus = "connected" => ~isCloudDisabled)
    /\ (ret.op # "none" /\ ~ret.wasDisabled /\ isCloudDisabled
           /\ cloudStatus # "checking"
          => cloudStatus = "offline")

\* the handler on task t moves to `place` in this step
Reaches(t, place) == handler[t].at # place /\ handler'[t].at = place

StatsStep ==
    \/ ret'.op = "getCacheStats"
    \/ \E t \in Tasks : /\ inflight'[t] # inflight[t]
                         /\ inflight'[t] # Idle
                         /\ inflight'[t].op = "getCacheStats"

\* C37: no step of a getCacheStats call changes the circuit flag, a
\* localStorage entry or a remote row, whatever its count request answers:
\* data, an error of any message, or an exception.
C37_StatsReadOnly ==
    [][StatsStep =>
          /\ isCloudDisabled' = isCloudDisabled
          /\ localStorage' = localStorage
          /\ matchups' = matchups
          /\ schedules' = schedules]_vars

\* getCacheStats() returned after a permission or connection error of its
\* count request, over a localStorage that holds a matchup entry: the
\* circuit is still closed
C37_Witness ==
    /\ ret.op = "getCacheStats"
    /\ ret.remote.kind = "error"
    /\ FailedClassified(ret)
    /\ ~isCloudDisabled
    /\ HeldCacheKeys # {}

\* the keys that hold a string before the step and none after it
RemovedKeys ==
    {k \in DOMAIN localStorage : localStorage[k] # NoItem /\ localStorage'[k] = NoItem}

\* C34: in the step in which a saveMatchup returns, the keys pruneCache
\* selected are at most 5 and every one of them starts with the matchup
\* cache prefix; at most 5 keys lose their string, all of them selected by
\* pruneCache; and every key that does not start with the matchup cache
\* prefix (the schedule entries, the keys of other features) holds what it
\* held before.
C34_EvictionConfined ==
    [][ret'.op = "saveMatchup" =>
          /\ Cardinality(ret'.local.pruned) <= PruneCount
          /\ \A k \in ret'.local.pruned : StartsWith(k, CACHE_PREFIX)
          /\ RemovedKeys \subseteq ret'.local.pruned
          /\ Cardinality(RemovedKeys) <= PruneCount
          /\ \A k \in DOMAIN localStorage :
                ~StartsWith(k, CACHE_PREFIX) => localStorage'[k] = localStorage[k]]_vars

\* saveMatchup returned after pruneCache removed five matchup entries: the
\* schedule entry and the string of the other feature are still held
C34_Witness ==
    /\ ret.op = "saveMatchup"
    /\ Cardinality(ret.local.pruned) = PruneCount
    /\ localStorage[KeyOf(SCHEDULE_CACHE_PREFIX, "w1")] # NoItem
    /\ localStorage[ForeignKey] = ForeignText

\* a get call takes a step: it is suspended at its request, or it returns
GetStep ==
    \/ ret'.op \in GetOps
    \/ \E t \in Tasks : /\ inflight'[t] # inflight[t]
                         /\ inflight'[t] # Idle
                         /\ inflight'[t].op \in GetOps

\* the string under the key parses and fails the test of
\* now - timestamp < TTL (as does an entry that has no timestamp)
Stale(store, key) ==
    LET parsed == JSON_parse(store[key]) IN
    /\ parsed.ok
    /\ "timestamp" \in DOMAIN parsed.value => ~Valid(key, parsed.value.timestamp)

\* C33: a step of getMatchup or getSchedule either leaves localStorage as
\* it was, or removes the string under the requested key and nothing else,
\* and that only when the string is an entry that fails the expiry test;
\* no key ever receives a string; and a get that returns a valid remote
\* row leaves localStorage as it was.
C33_GetNeverWrites ==
    [][GetStep =>
          /\ \/ localStorage' = localStorage
             \/ /\ ret'.op \in GetOps
                /\ localStorage' = [localStorage EXCEPT ![ret'.key] = NoItem]
                /\ Stale(localStorage, ret'.key)
          /\ (ret'.op \in GetOps /\ ret'.remote # NoRequest
                 /\ ret'.remote.kind = "data"
                 /\ Valid(ret'.key, ret'.remote.data.timestamp)
                => localStorage' = localStorage)]_vars

\* getMatchup returned the valid remote row of g1 while localStorage held
\* under the key an entry without timestamp, which the local test would
\* remove: the local entry is as it was
C33_Witness ==
    /\ ret.op = "getMatchup"
    /\ ret.remote # NoRequest
    /\ ret.remote.kind = "data"
    /\ ret.value = Found(PayloadA)
    /\ localStorage[ret.key] = JSON_stringify([payload |-> PayloadB])
    /\ localStorage[KeyOf(CACHE_PREFIX, "g2")] = Garbage

\* the string cannot be parsed
Unparsable(text) == text # NoItem /\ ~JSON_parse(text).ok

\* C36: a get that reads from localStorage a string that cannot be parsed
\* returns absent, does not reject, and leaves localStorage as it was; and
\* the ids getCachedGameIds returns include the id of every matchup key
\* that holds such a string.
C36_UnparsableKept ==
    [][/\ (ReachedLocal(ret') /\ Unparsable(localStorage[ret'.key]) =>
             /\ ret'.local.read = localStorage[ret'.key]
             /\ ret'.value = Missing
             /\ localStorage' = localStorage)
       /\ (ret'.op = "getCachedGameIds" =>
             /\ ret'.value # Rejected
             /\ \A k \in CacheKeys(localStorage') :
                   Unparsable(localStorage'[k]) =>
                      StripPrefix(k, CACHE_PREFIX) \in Range(ret'.value.value))]_vars

\* getMatchup read from localStorage a string that cannot be parsed and
\* returned absent: the key still holds the string
C36_Witness ==
    /\ ReachedLocal(ret)
    /\ ret.op = "getMatchup"
    /\ Unparsable(ret.local.read)
    /\ ret.value = Missing
    /\ localStorage[ret.key] = ret.local.read

\* the handler on task t calls verifyConnection() in this step
CallsVerifyConnection(t) ==
    \/ /\ inflight'[t] # inflight[t]
       /\ inflight'[t] # Idle
       /\ inflight'[t].op = "verifyConnection"
    \/ /\ ret'.op = "verifyConnection"
       /\ calls' = calls + 1
       /\ handler'[t] # handler[t]

\* C35: in the App verifyConnection() is called only by initApp, at its
\* line 59, which initApp reaches once, from the return of its first
\* getCachedGameIds(); and once that probe has returned (cloudStatus is no
\* longer 'checking') no step clears the circuit flag: isCloudActive(),
\* once false, is false in every later state.
C35_CircuitStaysOpen ==
    [][/\ \A t \in Tasks :
             /\ (CallsVerifyConnection(t) =>
                    /\ handler[t].at = "verifyConnection"
                    /\ cloudStatus = "checking")
             /\ (Reaches(t, "verifyConnection") =>
                    handler[t].at \in {"initApp", "localIds"})
             /\ (handler[t].at = "none" => handler'[t].at \notin {"initApp", "localIds"})
       /\ (cloudStatus # "checking" =>
             /\ cloudStatus' # "checking"
             /\ (isCloudDisabled => isCloudDisabled')
             /\ (~isCloudActive => ~isCloudActive'))]_vars

\* the startup probe succeeded, a later call opened the circuit, and both
\* handlers have ended with the circuit still open
C35_Witness ==
    /\ cloudStatus = "connected"
    /\ isCloudDisabled
    /\ ~isCloudActive
    /\ \A t \in Tasks : handler[t].at = "ended"

\* an analysis or sources fetched for game g are on display
ShowsResultOf(g) ==
    /\ result.game = g
    /\ result.data # Null \/ result.sources # <<>>

\* C32: once the handlers of two selections of different games have both
\* ended, the analysis and the sources on display, and the rosters on
\* display, are those fetched for the selected game, the one selected
\* last.
C32_LastSelectionShown ==
    (/\ \A t \in Tasks : handler[t].at = "ended"
     /\ handler["t1"].game # handler["t2"].game)
    => /\ \A g \in GameIds : ShowsResultOf(g) => g = selectedGame
       /\ rosterData \in {Null, selectedGame}

\* C31: provided the request of every suspended call eventually settles,
\* every call that is suspended at its request eventually returns,
\* whatever the other task calls or has in flight meanwhile (a call that
\* makes no request returns within the step that makes it).
C31_EveryCallCompletes ==
    \A t \in Tasks : (inflight[t] # Idle) ~> (inflight[t] = Idle)

\* a saveMatchup call has returned while a call of the other task is still
\* suspended at its request
C31_Witness ==
    /\ ret.op = "saveMatchup"
    /\ ret.remote # NoRequest
    /\ \E t \in Tasks : inflight[t] # Idle

====
